---- MODULE Spec2Model ----
(***************************************************************************)
(* Research-execution and progress-tracking protocol of compendiumscribe:  *)
(* execute_deep_research (synchronous, polling and streaming paths), the   *)
(* trace normaliser, the streaming fragment accumulator, the payload       *)
(* parser, build_compendium and the CancellationContext.                   *)
(*                                                                         *)
(* Strings are sequences of atoms.  An atom is a word or one of the        *)
(* separators " " and ":"; strip(), lower(), endswith(), "in" and          *)
(* ":".join() are computed on the atoms.  None is the reserved string      *)
(* NoneStr; an absent object is the empty sequence and a present object r  *)
(* is <<r>>.                                                               *)
(***************************************************************************)
EXTENDS Integers, Sequences, FiniteSets, TLC

\* ------------------------------------------------------------------ bounds
MaxPoll == 2
MaxStream == 3
MaxBatch == 2
MaxCalls == 2
MaxTokenCalls == 3
MaxMergeCalls == 3
MaxRuns == 2
MaxErrorCalls == 3

\* ------------------------------------------------------------ string layer
SP == " "
NoneStr == <<"<None>">>
EmptyStr == <<>>

LowerAtom(a) ==
    CASE a = "RESPONSE.CREATED" -> "response.created"
      [] a = "RESPONSE.FAILED" -> "response.failed"
      [] a = "Response.Completed" -> "response.completed"
      [] a = "Q1" -> "q1"
      [] OTHER -> a

Lower(s) == [i \in DOMAIN s |-> LowerAtom(s[i])]

RECURSIVE LStrip(_)
LStrip(s) == IF s # <<>> /\ Head(s) = SP THEN LStrip(Tail(s)) ELSE s

RECURSIVE RStrip(_)
RStrip(s) ==
    IF s # <<>> /\ s[Len(s)] = SP THEN RStrip(SubSeq(s, 1, Len(s) - 1)) ELSE s

Strip(s) == RStrip(LStrip(s))

EndsWith(s, suffix) ==
    /\ Len(s) >= Len(suffix)
    /\ SubSeq(s, Len(s) - Len(suffix) + 1, Len(s)) = suffix

Contains(s, atom) == \E i \in DOMAIN s : s[i] = atom

RECURSIVE Join(_)
Join(parts) ==
    IF parts = <<>> THEN <<>>
    ELSE IF Len(parts) = 1 THEN parts[1]
    ELSE parts[1] \o <<":">> \o Join(Tail(parts))

\* str | None  ->  str | None ; a blank string is None
coerce_optional_string(value) ==
    IF value = NoneStr THEN NoneStr
    ELSE LET stripped == Strip(value)
         IN IF stripped = <<>> THEN NoneStr ELSE stripped

\* python truthiness of an optional string
Truthy(value) == value # NoneStr /\ value # EmptyStr

\* python "a or b" on optional strings
OrElse(a, b) == IF Truthy(a) THEN a ELSE b

\* -------------------------------------------------------------- mappings
\* A python dict is a function from its keys (strings) to values.  A key holds
\* either a string or a mapping, by its name; d.get(k) of an absent key is
\* None.
EmptyDict == <<>>
Has(d, k) == k \in DOMAIN d
GetStr(d, k) == IF k \in DOMAIN d THEN d[k] ELSE NoneStr
GetDict(d, k) == IF k \in DOMAIN d THEN d[k] ELSE EmptyDict
Put(d, k, v) == [x \in (DOMAIN d) \cup {k} |-> IF x = k THEN v ELSE d[x]]
Pop(d, k) == [x \in (DOMAIN d) \ {k} |-> d[x]]
\* {k: v}
One(k, v) == Put(EmptyDict, k, v)
\* {**a, **b}
Overlay(a, b) == [x \in (DOMAIN a) \cup (DOMAIN b) |-> IF x \in DOMAIN b THEN b[x] ELSE a[x]]

\* ------------------------------------------------------------- utils.py
first_non_empty(values) ==
    IF \E i \in DOMAIN values : Truthy(values[i])
    THEN values[CHOOSE i \in DOMAIN values :
                    /\ Truthy(values[i])
                    /\ \A j \in 1..(i - 1) : ~Truthy(values[j])]
    ELSE NoneStr

RECURSIVE CollapseSpaces(_)
CollapseSpaces(s) ==
    IF Len(s) < 2 THEN s
    ELSE IF s[1] = SP /\ s[2] = SP THEN CollapseSpaces(Tail(s))
    ELSE <<s[1]>> \o CollapseSpaces(Tail(s))

DefaultMaxLength == 120

truncate_text(value, max_length) ==
    LET cleaned == CollapseSpaces(Strip(value))
    IN IF Len(cleaned) <= max_length THEN cleaned
       ELSE RStrip(SubSeq(cleaned, 1, max_length - 1)) \o <<"...">>

\* An action mapping restricted to the keys the trace layer reads; an absent
\* key holds NoneStr.
ActionKeys == {"type", "name", "query"}
NoAction == [type |-> NoneStr, name |-> NoneStr, query |-> NoneStr]

simplify_action_snapshot(action) ==
    [k \in ActionKeys |->
        IF GetStr(action, k) \in {NoneStr, EmptyStr} THEN NoneStr ELSE action[k]]

\* ------------------------------------------------------------- trace.py
SortedActionKeys == <<"name", "query", "type">>

RECURSIVE DumpKeys(_, _)
DumpKeys(action, keys) ==
    IF keys = <<>> THEN <<>>
    ELSE (IF action[Head(keys)] = NoneStr THEN <<>>
          ELSE <<Head(keys), "=">> \o action[Head(keys)] \o <<",">>)
         \o DumpKeys(action, Tail(keys))

\* json.dumps(action, sort_keys=True)
JsonDumpsAction(action) == <<"{">> \o DumpKeys(action, SortedActionKeys) \o <<"}">>

trace_event_token_with_status(event) ==
    IF Truthy(event.id) \/ Truthy(coerce_optional_string(event.status))
    THEN Join(<<<<"id">>, event.id, <<"status">>, event.status>>)
    ELSE event.type \o <<":">> \o JsonDumpsAction(event.action)

trace_event_token(event) ==
    IF Truthy(event.id)
    THEN LET status == coerce_optional_string(event.status)
             query == coerce_optional_string(event.action.query)
         IN Join(<<<<"id">>, event.id>>
                 \o (IF Truthy(status) THEN <<<<"status">>, status>> ELSE <<>>)
                 \o (IF Truthy(query) THEN <<<<"query">>, query>> ELSE <<>>))
    ELSE LET query == coerce_optional_string(event.action.query)
             action_name == coerce_optional_string(event.action.name)
             event_type == OrElse(coerce_optional_string(event.type), <<"generic">>)
         IN IF Truthy(query) THEN <<"search", ":">> \o Lower(query)
            ELSE IF Truthy(action_name) THEN <<"action", ":">> \o Lower(action_name)
            ELSE event_type \o <<":">> \o JsonDumpsAction(event.action)

RECURSIVE UniqueQueries(_, _)
UniqueQueries(queries, seen) ==
    IF queries = <<>> THEN <<>>
    ELSE LET normalized == Strip(Head(queries))
             fingerprint == Lower(normalized)
         IN IF normalized = <<>> \/ fingerprint \in seen
            THEN UniqueQueries(Tail(queries), seen)
            ELSE <<normalized>> \o UniqueQueries(Tail(queries), seen \cup {fingerprint})

QueryLimit == 3

format_query_list(queries, limit) ==
    LET unique_queries == UniqueQueries(queries, {})
    IN IF unique_queries = <<>> THEN [shown |-> <<>>, more |-> 0, text |-> "current search focus"]
       ELSE [shown |-> SubSeq(unique_queries, 1, IF Len(unique_queries) < limit
                                                THEN Len(unique_queries) ELSE limit),
             more |-> IF Len(unique_queries) > limit
                      THEN Len(unique_queries) - limit ELSE 0,
             text |-> "queries"]

summarize_trace_event(event) ==
    LET event_type == IF Strip(event.type) = <<>> THEN <<"tool_call">> ELSE Strip(event.type)
        status == IF event.status = NoneStr THEN <<"None">> ELSE Strip(event.status)
        action_type == IF event.action.type = NoneStr THEN <<>> ELSE Strip(event.action.type)
        action_name == IF action_type # <<>> THEN action_type
                       ELSE IF event.action.name = NoneStr THEN <<>>
                       ELSE Strip(event.action.name)
        label == IF action_name # <<>> THEN action_name ELSE event_type
        detail == IF event.action.query # NoneStr /\ Strip(event.action.query) # <<>>
                  THEN truncate_text(event.action.query, DefaultMaxLength)
                  ELSE <<>>
    IN [label |-> label, status |-> status, detail |-> detail]

\* One iteration of the loop of summaries_from_trace_events over a new event.
ClassifyEvent(acc, event) ==
    LET action_type == IF event.action.type = NoneStr THEN <<>> ELSE Lower(event.action.type)
        query == coerce_optional_string(event.action.query)
        event_type == Lower(event.type)
    IN IF EndsWith(event_type, <<"web_search", "_call">>) \/ action_type = <<"search">>
       THEN IF Truthy(query)
            THEN [acc EXCEPT !.search_queries = Append(@, query)]
            ELSE [acc EXCEPT !.fallbacks = Append(@, event)]
       ELSE IF Contains(event_type, "open_page")
       THEN [acc EXCEPT !.open_pages = @ + 1]
       ELSE IF Contains(event_type, "find_in_page") \/ action_type = <<"find">>
       THEN [acc EXCEPT !.find_in_page = @ + 1]
       ELSE IF EndsWith(event_type, <<"code_interpreter", "_call">>)
               \/ action_type \in {<<"code">>, <<"python">>}
       THEN [acc EXCEPT !.code_runs = @ + 1]
       ELSE [acc EXCEPT !.fallbacks = Append(@,
                [status |-> "update",
                 message |-> summarize_trace_event(event),
                 metadata |-> [type |-> event.type,
                               status |-> event.status,
                               id |-> event.id]])]

SeenStepNoAdd(acc, event) ==
    LET token == trace_event_token(event)
    IN IF token \in acc.seen THEN acc
       ELSE [ClassifyEvent(acc, event) EXCEPT !.counted = Append(@, token)]

\* The dedupe guard of the loop: skip a seen token, else record it.
SeenStep(acc, event) ==
    LET token == trace_event_token(event)
    IN IF token \in acc.seen THEN acc
       ELSE [ClassifyEvent(acc, event) EXCEPT
                !.seen = @ \cup {token},
                !.counted = Append(@, token)]

RECURSIVE ScanEvents(_, _)
ScanEvents(acc, events) ==
    IF events = <<>> THEN acc
    ELSE ScanEvents(SeenStep(acc, Head(events)), Tail(events))

\* One aggregate summary: present when its counter is not zero.
CountSummary(count, text, kind) ==
    IF count # 0
    THEN <<[status |-> "update",
            message |-> [text |-> text, arg |-> [count |-> count]],
            metadata |-> [kind |-> kind, count |-> count]]>>
    ELSE <<>>

SearchSummaryPerQuery(search_queries) ==
    [i \in DOMAIN search_queries |->
        [status |-> "update",
         message |-> [text |-> "Exploring sources for",
                      arg |-> format_query_list(<<search_queries[i]>>, QueryLimit)],
         metadata |-> [kind |-> "web_search", queries |-> <<search_queries[i]>>]]]

SearchSummary(search_queries) ==
    IF search_queries # <<>>
    THEN <<[status |-> "update",
            message |-> [text |-> "Exploring sources for",
                         arg |-> format_query_list(search_queries, QueryLimit)],
            metadata |-> [kind |-> "web_search", queries |-> search_queries]]>>
    ELSE <<>>

\* The summaries assembled after the loop, in their fixed order.
AssembleSummaries(acc) ==
    [summaries |-> SearchSummary(acc.search_queries)
                   \o CountSummary(acc.open_pages, "Reviewing opened references",
                                   "open_page")
                   \o CountSummary(acc.find_in_page, "Scanning within sources",
                                   "find_in_page")
                   \o CountSummary(acc.code_runs, "Running code interpreter actions",
                                   "code_interpreter")
                   \o acc.fallbacks,
     seen |-> acc.seen,
     counted |-> acc.counted]

\* summaries_from_trace_events(events, seen_tokens): the returned list
\* (summaries), seen_tokens after the call (seen) and, in order, the tokens of
\* the events the call classified (counted).
summaries_from_trace_events(events, seen_tokens) ==
    AssembleSummaries(
        ScanEvents([seen |-> seen_tokens, search_queries |-> <<>>,
                    open_pages |-> 0, find_in_page |-> 0, code_runs |-> 0,
                    fallbacks |-> <<>>, counted |-> <<>>], events))

\* One raw item of response.output as the trace layer reads it.
RECURSIVE CallEvents(_)
CallEvents(output_items) ==
    IF output_items = <<>> THEN <<>>
    ELSE LET item == Head(output_items)
             item_type == coerce_optional_string(GetStr(item, "type"))
         IN (IF ~Truthy(item_type) \/ ~EndsWith(item_type, <<"_call">>) THEN <<>>
             ELSE <<[id |-> coerce_optional_string(GetStr(item, "id")),
                     type |-> item_type,
                     status |-> OrElse(coerce_optional_string(GetStr(item, "status")),
                                       <<"update">>),
                     action |-> simplify_action_snapshot(GetDict(item, "action"))]>>)
            \o CallEvents(Tail(output_items))

iter_trace_progress_events(response) == CallEvents(response.output)

\* The snapshot of one item, or nothing (<<>>) when it is not a tool call.
\* "response or result": an empty mapping and None are both the empty mapping.
trace_event_from_item(item) ==
    LET item_type == OrElse(coerce_optional_string(GetStr(item, "type")), <<>>)
    IN IF ~EndsWith(item_type, <<"_call">>) THEN <<>>
       ELSE <<[id |-> coerce_optional_string(GetStr(item, "id")),
               type |-> item_type,
               status |-> coerce_optional_string(GetStr(item, "status")),
               action |-> simplify_action_snapshot(GetDict(item, "action")),
               response |-> IF GetDict(item, "response") # EmptyDict
                            THEN GetDict(item, "response")
                            ELSE GetDict(item, "result")]>>

\* ---------------------------------------------------- inputs of the model
ItemSearch ==
    [type |-> <<"web_search", "_call">>, id |-> <<"ws_1">>, status |-> <<"completed">>,
     action |-> [type |-> <<"search">>, name |-> NoneStr, query |-> <<"Q1">>]]
ItemSearchNoQuery ==
    [type |-> <<"web_search", "_call">>, id |-> <<"ws_2">>, status |-> NoneStr,
     action |-> [type |-> <<"search">>, name |-> NoneStr, query |-> <<SP>>]]
ItemOpenPage ==
    [type |-> <<"open_page", "_call">>, id |-> <<"op_1">>, status |-> <<"in_progress">>,
     action |-> NoAction]
ItemCode ==
    [type |-> <<"code_interpreter", "_call">>, id |-> NoneStr, status |-> <<"completed">>,
     action |-> [type |-> <<"code">>, name |-> NoneStr, query |-> NoneStr]]
ItemOther ==
    [type |-> <<"mcp", "_call">>, id |-> NoneStr, status |-> <<"completed">>,
     action |-> [type |-> NoneStr, name |-> <<"lookup">>, query |-> NoneStr]]
ItemSearchNoId ==
    [type |-> <<"web_search", "_call">>, id |-> NoneStr, status |-> <<"in_progress">>,
     action |-> [type |-> <<"search">>, name |-> NoneStr, query |-> <<"q1">>]]
ItemMessage ==
    [type |-> <<"message">>, id |-> <<"msg_1">>, status |-> <<"completed">>,
     action |-> NoAction]

Items == {ItemSearch, ItemSearchNoQuery, ItemOpenPage, ItemCode, ItemOther,
          ItemSearchNoId, ItemMessage}

RECURSIVE SeqsUpTo(_, _)
SeqsUpTo(S, n) ==
    IF n = 0 THEN {<<>>}
    ELSE LET shorter == SeqsUpTo(S, n - 1)
         IN shorter \cup {Append(q, x) : q \in shorter, x \in S}

Snapshot(id, status, output) == [id |-> id, status |-> status, output |-> output]

\* The snapshots the client may return: still running ones with the output
\* lists a poll may see, and ones that end the run, whose output the engine
\* does not read.
Responses ==
    {Snapshot(<<"resp_a">>, <<"in_progress">>, <<>>),
     Snapshot(<<"resp_a">>, <<"in_progress">>, <<ItemSearch, ItemOpenPage>>),
     Snapshot(<<"resp_b">>, <<"in_progress">>, <<ItemSearch>>),
     Snapshot(<<"resp_a">>, <<"queued">>, <<ItemSearchNoQuery>>),
     Snapshot(<<"resp_b">>, <<"queued">>, <<ItemCode, ItemSearchNoId, ItemMessage>>),
     Snapshot(<<"resp_a">>, <<"queued">>, <<>>),
     Snapshot(<<"resp_a">>, <<"cancelled">>, <<>>),
     Snapshot(<<"resp_a">>, <<"requires_action">>, <<ItemOther>>),
     Snapshot(<<"resp_a">>, NoneStr, <<>>),
     Snapshot(<<"resp_a">>, <<"completed">>, <<>>),
     Snapshot(<<"resp_b">>, <<SP, "completed">>, <<>>),
     Snapshot(<<"resp_a">>, <<"failed">>, <<>>),
     Snapshot(<<"resp_b">>, <<"error", SP>>, <<>>)}

\* What config.progress_callback is: None, a callable that returns or a
\* callable that raises an Exception on every invocation.
CallbackKinds == {"none", "returns", "raises"}

\* The configurations of a run.  The poll budget varies where polling can
\* happen with both tools enabled and is MaxPoll elsewhere; the callback
\* varies for the polling run with both tools enabled and returns elsewhere.
Configs ==
    {c \in [use_web_search : BOOLEAN, enable_code_interpreter : BOOLEAN,
            background : BOOLEAN, stream_progress : BOOLEAN,
            max_poll_attempts : 0..MaxPoll, use_prompt_refinement : {TRUE},
            progress_callback : CallbackKinds] :
        /\ \/ c.max_poll_attempts = MaxPoll
           \/ c.use_web_search /\ c.enable_code_interpreter /\ c.background
                 /\ ~c.stream_progress
        /\ \/ c.progress_callback = "returns"
           \/ c.use_web_search /\ c.enable_code_interpreter /\ c.background
                 /\ c.max_poll_attempts = MaxPoll /\ ~c.stream_progress}

\* ------------------------------------------------------------------ state
VARIABLES
    config,          \* ResearchConfig of the run
    pc,              \* "init", "polling", "streaming", "returned", "raised"
    log,             \* observable effects in program order: progress events,
                     \* client calls, sleeps, stream events consumed
    response,        \* the response the submission returned (absent: <<>>)
    attempts,        \* await_completion: attempts
    current,         \* await_completion: current (absent: <<>>)
    seen_tokens,     \* seen_tokens / seen_trace_tokens of the run
    summarised,      \* tokens of the events the run's summaries accounted for
    final_response,  \* streaming: final_response
    stream_state,    \* streaming: stream_state
    result,          \* the value execute_deep_research returned (absent: <<>>)
    error,           \* the exception it raised (absent: <<>>)
    build,           \* build_compendium: its position, inputs and outcome
    cancellation,    \* a CancellationContext: its fields
    twin             \* the same run under a callback that never raises:
                     \* its client calls, position and outcome

vars == <<config, pc, log, response, attempts, current, seen_tokens, summarised,
          final_response, stream_state, result, error, build, cancellation,
          twin>>

\* ------------------------------------------------------------ errors.py
DeepResearchError(msg, detail) ==
    [kind |-> "DeepResearchError", msg |-> msg, detail |-> detail,
     research_id |-> NoneStr]

KeyError(key) ==
    [kind |-> "KeyError", msg |-> key, detail |-> NoneStr, research_id |-> NoneStr]

\* ---------------------------------------------------------- log entries
\* A progress event the program is about to emit; callback becomes what the
\* invocation of config.progress_callback did when the event is emitted.
emit_progress(phase, status, note, metadata) ==
    [k |-> "progress", phase |-> phase, status |-> status, note |-> note,
     metadata |-> metadata, callback |-> "unset"]

NoMeta == [status |-> NoneStr, poll_attempt |-> 0]

CreateCall(background, stream) ==
    [k |-> "create", background |-> background, stream |-> stream,
     tools |-> (IF config.use_web_search THEN <<"web_search_preview">> ELSE <<>>)
               \o (IF config.enable_code_interpreter THEN <<"code_interpreter">>
                   ELSE <<>>)]
\* time.sleep(config.poll_interval_seconds)
SleepCall == [k |-> "sleep", seconds |-> "poll_interval_seconds"]
GetCall(id, ret) == [k |-> "get", id |-> id, ret |-> ret]

IsProgress(e) == e.k = "progress"
IsClientCall(e) == e.k \in {"create", "get", "get_final_response"}
IsAnyClientCall(e) == IsClientCall(e) \/ e.k = "plan_create"

\* ------------------------------------------------- research_domain.py
CallbackError ==
    [kind |-> "CallbackError", msg |-> "callback raised", detail |-> NoneStr,
     research_id |-> NoneStr]

InvokeUnguarded(callback) ==
    IF callback = "none" THEN "not_called"
    ELSE IF callback = "raises" THEN "escaped"
    ELSE "returned"

\* _emit_progress: "if callback is None: return", then the call inside
\* "try: ... except Exception: return".
Invoke(callback) ==
    IF callback = "none" THEN "not_called"
    ELSE IF callback = "raises" THEN "swallowed"
    ELSE "returned"

Emitted(e, outcome) == [e EXCEPT !.callback = outcome]

\* The effects of a handler in program order: each progress event invokes
\* the callback, and an exception leaving _emit_progress ends the handler.
RECURSIVE Delivered(_, _)
Delivered(callback, entries) ==
    IF entries = <<>> THEN [entries |-> <<>>, escaped |-> FALSE]
    ELSE IF IsProgress(Head(entries)) /\ Invoke(callback) = "escaped"
    THEN [entries |-> <<Emitted(Head(entries), "escaped")>>, escaped |-> TRUE]
    ELSE [entries |->
             <<IF IsProgress(Head(entries))
               THEN Emitted(Head(entries), Invoke(callback))
               ELSE Head(entries)>>
             \o Delivered(callback, Tail(entries)).entries,
          escaped |-> Delivered(callback, Tail(entries)).escaped]

TwinStep(entries, to, res, err) ==
    [twin EXCEPT !.calls = @ \o SelectSeq(entries, IsAnyClientCall),
                 !.pc = to, !.result = res, !.error = err]

Committed(delivered, to, res, err) ==
    /\ log' = log \o delivered.entries
    /\ pc' = IF delivered.escaped THEN "raised" ELSE to
    /\ result' = IF delivered.escaped THEN <<>> ELSE res
    /\ error' = IF delivered.escaped THEN <<CallbackError>> ELSE err

\* A handler step of execute_deep_research: its effects, then its position
\* and outcome.
Commit(entries, to, res, err) ==
    /\ Committed(Delivered(config.progress_callback, entries), to, res, err)
    /\ twin' = TwinStep(entries, to, res, err)

Continue(entries) == Commit(entries, pc, result, error)

\* ------------------------------------------------ execution/polling.py
\* The loop "for summary in trace: emit_progress(...)" of await_completion:
\* the entries it emits and whether reading a summary's key raised.
RECURSIVE EmitTracePolling(_)
EmitTracePolling(trace) ==
    IF trace = <<>> THEN [entries |-> <<>>, raised |-> FALSE]
    ELSE LET summary == Head(trace)
         IN IF {"status", "message", "metadata"} \subseteq DOMAIN summary
            THEN LET rest == EmitTracePolling(Tail(trace))
                 IN [entries |-> <<emit_progress("trace", summary.status,
                                                 summary.message, summary.metadata)>>
                                 \o rest.entries,
                     raised |-> rest.raised]
            ELSE [entries |-> <<>>, raised |-> TRUE]

StillRunningInProgressOnly == {<<"in_progress">>}

\* "status in {"in_progress", "queued"}"
StillRunning == {<<"in_progress">>, <<"queued">>}

FinalStatus(resp) == OrElse(coerce_optional_string(resp.status), <<"completed">>)

FinishUnchecked(resp, entries) == Commit(entries, "returned", <<resp>>, <<>>)

\* The final validation of the status, then return or raise
\* (execute_deep_research and execute_deep_research_streaming).
Finish(resp, entries) ==
    IF FinalStatus(resp) # <<"completed">>
    THEN Commit(entries, "raised", <<>>,
                <<DeepResearchError("did not complete successfully",
                                    FinalStatus(resp))>>)
    ELSE Commit(entries, "returned", <<resp>>, <<>>)

Raise(exc, entries) == Commit(entries, "raised", <<>>, <<exc>>)

RetrievalIdOfCurrent(submitted, latest) == latest.id

\* The id a retrieval is addressed to: client.responses.get(response.id).
RetrievalId(submitted, latest) == submitted.id

FailedStatusesWithoutError == {<<"failed">>}

\* "status in {"failed", "error"}"
FailedStatuses == {<<"failed">>, <<"error">>}

LoopContinuesOnceMore(made) == made <= config.max_poll_attempts

\* The while-condition of await_completion, tested with the attempts made.
LoopContinues(made) == made < config.max_poll_attempts

\* One iteration of the polling loop: sleep, retrieve, dispatch on the status;
\* when the iteration ends the loop, the rest of execute_deep_research.
PollTick ==
    /\ pc = "polling"
    /\ LoopContinues(attempts)
    /\ \E retrieved \in Responses :
        LET made == attempts + 1
            status == coerce_optional_string(retrieved.status)
            head == <<SleepCall,
                      GetCall(RetrievalId(response[1], current[1]), retrieved)>>
            trace == summaries_from_trace_events(
                         iter_trace_progress_events(retrieved), seen_tokens)
            emitted == EmitTracePolling(trace.summaries)
            heartbeat == emit_progress("deep_research", "update", "still running",
                             [status |-> status, poll_attempt |-> made])
        IN /\ attempts' = made
           /\ current' = <<retrieved>>
           /\ IF status = <<"completed">>
              THEN /\ Finish(retrieved, head \o
                        <<emit_progress("deep_research", "completed", "run finished",
                              [status |-> status, poll_attempt |-> 0])>>)
                   /\ UNCHANGED <<seen_tokens, summarised>>
              ELSE IF status \in FailedStatuses
              THEN /\ Raise(DeepResearchError("run failed with status", status), head)
                   /\ UNCHANGED <<seen_tokens, summarised>>
              ELSE /\ seen_tokens' = trace.seen
                   /\ summarised' = summarised \o trace.counted
                   /\ IF emitted.raised
                      THEN Raise(KeyError("message"), head \o emitted.entries)
                      ELSE IF LoopContinues(made)
                      THEN Continue(head \o emitted.entries \o <<heartbeat>>)
                      ELSE Raise(DeepResearchError("polling limit", NoneStr),
                                 head \o emitted.entries \o <<heartbeat>>)
    /\ UNCHANGED <<build, cancellation, config, response, final_response, stream_state>>

\* --------------------------------------------------- execution/core.py
InitStreamState == [status_events |-> {}, tool_events |-> <<>>]

\* execute_deep_research up to the first blocking point after submission:
\* precondition, starting event, create and the dispatch on the mode.
HasToolsAlways(cfg) == TRUE

\* "tools" is non-empty
HasTools(cfg) == cfg.use_web_search \/ cfg.enable_code_interpreter

SubmitNoTools ==
    /\ pc = "init"
    /\ ~HasTools(config)
    /\ Raise(DeepResearchError("requires web search or code interpreter", NoneStr), <<>>)
    /\ UNCHANGED <<build, cancellation, config, response, attempts, current, seen_tokens, summarised,
                   final_response, stream_state>>

Starting == emit_progress("deep_research", "starting", "submitting", NoMeta)

SubmissionStartingLast(notes, create) == notes \o <<create, Starting>>

\* The effects of execute_deep_research up to the return of create: the
\* starting event, the notes of the streaming path, then the call.
Submission(notes, create) == <<Starting>> \o notes \o <<create>>

\* create returned a response that is already terminal.
SubmitSync ==
    /\ pc = "init"
    /\ HasTools(config)
    /\ ~config.stream_progress
    /\ \E created \in Responses :
        /\ FinalStatus(created) \notin StillRunning
        /\ response' = <<created>>
        /\ Finish(created,
                  Submission(<<>>, CreateCall(config.background, FALSE))
                  \o <<emit_progress("deep_research", "completed", "synchronously",
                          [status |-> FinalStatus(created), poll_attempt |-> 0])>>)
    /\ UNCHANGED <<build, cancellation, config, attempts, current, seen_tokens, summarised,
                   final_response, stream_state>>

NewSeenTokensKept(previous) == previous

\* "seen_tokens: set[str] = set()": the set a call starts with, whatever the
\* set of an earlier call held.
NewSeenTokens(previous) == {}

\* create returned a running response: await_completion starts.
SubmitPoll ==
    /\ pc = "init"
    /\ HasTools(config)
    /\ ~config.stream_progress
    /\ \E created \in Responses :
        /\ created.output = <<>>
        /\ FinalStatus(created) \in StillRunning
        /\ response' = <<created>>
        /\ current' = <<created>>
        /\ attempts' = 0
        /\ seen_tokens' = NewSeenTokens(seen_tokens)
        /\ LET entries == Submission(<<>>, CreateCall(config.background, FALSE))
                          \o <<emit_progress("deep_research", "in_progress",
                                             "polling", NoMeta)>>
           IN IF LoopContinues(0)
              THEN Commit(entries, "polling", result, error)
              ELSE Raise(DeepResearchError("polling limit", NoneStr), entries)
    /\ UNCHANGED <<build, cancellation, config, summarised, final_response, stream_state>>

\* ------------------------------------------ execution/stream_events.py
\* Keys whose value is a mapping; every other key holds a string, except the
\* argument keys, which hold [dict |-> mapping] or [str |-> string].
ArgumentKeys == <<"arguments", "call_arguments", "input">>

\* json.loads of a string: the text {k=v,} written by JsonDumpsAction decodes
\* to a mapping, a text of one digit atom to a number, any other text fails.
JsonIsObject(s) == Len(s) >= 2 /\ s[1] = "{" /\ s[Len(s)] = "}"
JsonIsScalar(s) == Len(s) = 1 /\ s[1] \in {"0", "1", "42", "true", "null"}

RECURSIVE JsonPairs(_)
JsonPairs(s) ==
    IF Len(s) < 4 THEN EmptyDict
    ELSE LET stop == CHOOSE i \in 3..Len(s) :
                        /\ s[i] = ","
                        /\ \A j \in 3..(i - 1) : s[j] # ","
         IN Put(JsonPairs(SubSeq(s, stop + 1, Len(s))), s[1], SubSeq(s, 3, stop - 1))

JsonObject(s) == JsonPairs(SubSeq(s, 2, Len(s) - 1))

coerce_action_payload(payload) ==
    IF Has(payload, "dict") THEN payload.dict
    ELSE IF JsonIsObject(payload.str) THEN JsonObject(payload.str)
    ELSE IF JsonIsScalar(payload.str) THEN [value |-> payload.str]
    ELSE [input |-> payload.str]

ReplaceDots(s) == [i \in DOMAIN s |-> IF s[i] = "." THEN "_" ELSE s[i]]

FragmentId(fragment) ==
    first_non_empty(<<coerce_optional_string(GetStr(fragment, "id")),
                      coerce_optional_string(GetStr(fragment, "tool_call_id")),
                      coerce_optional_string(GetStr(fragment, "call_id"))>>)

RECURSIVE PromoteArguments(_, _)
PromoteArguments(candidate, keys) ==
    IF keys = <<>> THEN candidate
    ELSE PromoteArguments(
            IF Has(candidate, Head(keys)) /\ ~Has(candidate, "action")
            THEN Put(Pop(candidate, Head(keys)), "action",
                     coerce_action_payload(candidate[Head(keys)]))
            ELSE candidate,
            Tail(keys))

\* "candidate.update(tool_call)": a nested tool_call mapping is flattened
\* into the candidate.
FlattenToolCall(fragment) ==
    IF Has(fragment, "tool_call")
    THEN Overlay(fragment.tool_call, Pop(fragment, "tool_call"))
    ELSE Pop(fragment, "tool_call")

\* "if value: candidate[key] = value"
SetIfTruthy(candidate, key, value) ==
    IF Truthy(value) THEN Put(candidate, key, value) ELSE candidate

\* The type derived from the raw type, the tool name and the tool type.
NormalizedType(raw_type, tool_name, tool_type) ==
    IF Truthy(raw_type) /\ EndsWith(raw_type, <<"_call">>) THEN raw_type
    ELSE IF Truthy(tool_name) THEN ReplaceDots(tool_name) \o <<"_call">>
    ELSE IF Truthy(tool_type) THEN ReplaceDots(tool_type) \o <<"_call">>
    ELSE IF Truthy(raw_type) /\ EndsWith(raw_type, <<"_delta">>)
    THEN SubSeq(raw_type, 1, Len(raw_type) - 1) \o <<"_call">>
    ELSE NoneStr

WithId(candidate) == SetIfTruthy(candidate, "id", FragmentId(candidate))

WithType(candidate) ==
    SetIfTruthy(candidate, "type",
        NormalizedType(coerce_optional_string(GetStr(candidate, "type")),
                       coerce_optional_string(GetStr(candidate, "tool_name")),
                       coerce_optional_string(GetStr(candidate, "tool_type"))))

WithStatus(candidate) ==
    SetIfTruthy(candidate, "status",
        first_non_empty(<<coerce_optional_string(GetStr(candidate, "status")),
                          coerce_optional_string(GetStr(candidate, "state"))>>))

\* "if not coerce_optional_string(candidate.get("type")): return None"
TypedOrNothing(candidate) ==
    IF ~Truthy(coerce_optional_string(GetStr(candidate, "type"))) THEN <<>>
    ELSE <<candidate>>

\* normalize_tool_fragment: the normalised candidate, or nothing (<<>>) when
\* no type can be derived.  The result is wrapped: <<candidate>>.
normalize_tool_fragment(fragment) ==
    TypedOrNothing(
        PromoteArguments(
            WithStatus(WithType(WithId(FlattenToolCall(fragment)))),
            ArgumentKeys))

DeltaKeys == {"query_delta", "name_delta", "type_delta"}
BaseKey(key) ==
    CASE key = "query_delta" -> "query"
      [] key = "name_delta" -> "name"
      [] key = "type_delta" -> "type"

NestedKeys == {"metadata"}

\* A payload that is not a mapping (a plain string s) is written
\* ScalarPayload(s); IsMapping is "isinstance(value, dict)".
ScalarPayload(s) == [scalar |-> s]
IsMapping(value) == ~Has(value, "scalar")

RECURSIVE merge_action_payload(_, _)
\* The keys of a mapping incoming are applied one by one (a delta key and its
\* base key never come in the same fragment).
merge_action_payload(existing, incoming) ==
    IF ~IsMapping(incoming) THEN incoming
    ELSE IF ~IsMapping(existing) THEN merge_action_payload(EmptyDict, incoming)
    ELSE IF DOMAIN incoming = {} THEN existing
    ELSE LET key == CHOOSE k \in DOMAIN incoming : TRUE
             value == incoming[key]
             rest == Pop(incoming, key)
             applied ==
                IF key \in DeltaKeys
                THEN LET existing_value ==
                            coerce_optional_string(GetStr(existing, BaseKey(key)))
                     IN Put(existing, BaseKey(key),
                            OrElse(existing_value, EmptyStr) \o value)
                ELSE IF key \in NestedKeys
                THEN Put(existing, key,
                         merge_action_payload(GetDict(existing, key), value))
                ELSE Put(existing, key, value)
         IN merge_action_payload(applied, rest)

ResponseNestedKeys == {"headers"}

\* A payload that is None is the scalar payload of None; d.get(key) of a
\* payload key.
NoPayload == ScalarPayload(NoneStr)
GetPayload(d, key) == IF Has(d, key) THEN d[key] ELSE NoPayload

\* The loop of merge_response_payload over the keys of a mapping incoming.
RECURSIVE MergeMappings(_, _)
MergeMappings(existing, incoming) ==
    IF DOMAIN incoming = {} THEN existing
    ELSE LET key == CHOOSE k \in DOMAIN incoming : TRUE
             value == incoming[key]
             rest == Pop(incoming, key)
             applied ==
                IF /\ key \in ResponseNestedKeys
                   /\ IsMapping(value)
                   /\ Has(existing, key)
                   /\ IsMapping(existing[key])
                THEN Put(existing, key, MergeMappings(existing[key], value))
                ELSE Put(existing, key, value)
         IN MergeMappings(applied, rest)

merge_response_payload_shallow(existing, incoming) ==
    IF IsMapping(existing) /\ IsMapping(incoming) THEN Overlay(existing, incoming)
    ELSE IF incoming # NoPayload THEN incoming
    ELSE existing

merge_response_payload(existing, incoming) ==
    IF IsMapping(existing) /\ IsMapping(incoming) THEN MergeMappings(existing, incoming)
    ELSE IF incoming # NoPayload THEN incoming
    ELSE existing

Normalized(d) ==
    LET n == normalize_tool_fragment(d) IN IF n = <<>> THEN d ELSE n[1]

\* "if value: merged[key] = value" for type, id and status
MergeScalar(merged, fragment, key) ==
    SetIfTruthy(merged, key, GetStr(fragment, key))

\* "merged["action"] = merge_action_payload(merged.get("action"), action)"
MergeAction(merged, fragment) ==
    IF Has(fragment, "action")
    THEN Put(merged, "action",
             merge_action_payload(GetDict(merged, "action"), fragment.action))
    ELSE merged

\* The same for the "response" and "result" payloads.
MergePayload(merged, fragment, key) ==
    IF GetPayload(fragment, key) # NoPayload
    THEN Put(merged, key,
             merge_response_payload(GetPayload(merged, key), fragment[key]))
    ELSE merged

MergeNormalized(merged, fragment) ==
    MergePayload(
        MergePayload(
            MergeAction(
                MergeScalar(MergeScalar(MergeScalar(merged, fragment, "type"),
                                        fragment, "id"),
                            fragment, "status"),
                fragment),
            fragment, "response"),
        fragment, "result")

merge_tool_fragment(existing, fragment) ==
    MergeNormalized(Normalized(existing), Normalized(fragment))

\* The item itself, then its "item" and its "delta" when they are mappings.
collect_stream_fragments(item) ==
    <<item>>
    \o (IF Has(item, "item") THEN <<item.item>> ELSE <<>>)
    \o (IF Has(item, "delta") THEN <<item.delta>> ELSE <<>>)

\* What dict.update raises for an argument that is a non-empty string, and
\* what calling update on a stored payload that is a string raises.
ValueError(msg) ==
    [kind |-> "ValueError", msg |-> msg, detail |-> NoneStr, research_id |-> NoneStr]
AttributeError(msg) ==
    [kind |-> "AttributeError", msg |-> msg, detail |-> NoneStr,
     research_id |-> NoneStr]

\* "fragment.get(key) or {}"
PayloadOrEmpty(payload) ==
    IF payload \in {NoPayload, ScalarPayload(EmptyStr)} THEN EmptyDict ELSE payload

\* "snapshot.setdefault(key, {}).update(fragment.get(key) or {})" for a
\* fragment whose key is not None.  snapshot is a shallow copy of existing:
\* a payload that existing holds is the same object in both and is updated
\* in place, so st carries the snapshot, existing as the update left it, and
\* the exception the update raised (<<>>: none).
UpdatePayload(st, fragment, key) ==
    IF st.raised # <<>> \/ GetPayload(fragment, key) = NoPayload THEN st
    ELSE LET stored == GetPayload(st.snapshot, key)
             target == IF Has(st.snapshot, key) THEN stored ELSE EmptyDict
             incoming == PayloadOrEmpty(fragment[key])
         IN IF ~IsMapping(target)
            THEN [st EXCEPT !.raised = <<AttributeError("update")>>]
            ELSE IF ~IsMapping(incoming)
            THEN [st EXCEPT !.snapshot = Put(st.snapshot, key, target),
                            !.raised = <<ValueError("dictionary update sequence")>>]
            ELSE [st EXCEPT
                    !.snapshot = Put(st.snapshot, key, Overlay(target, incoming)),
                    !.existing = IF Has(st.existing, key)
                                 THEN Put(st.existing, key, Overlay(target, incoming))
                                 ELSE st.existing]

\* The type-less branch of extract_stream_tool_fragment.
UpdateSnapshot(existing, fragment) ==
    LET st == UpdatePayload(
                  UpdatePayload([snapshot |-> existing, existing |-> existing,
                                 raised |-> <<>>],
                                fragment, "response"),
                  fragment, "result")
    IN [fragment |-> IF st.raised # <<>> THEN <<>> ELSE <<Normalized(st.snapshot)>>,
        existing |-> st.existing,
        raised |-> st.raised]

\* extract_stream_tool_fragment(fragments, existing): the fragment it returns
\* (<<>>: None), existing after the call and the exception raised, if any.
RECURSIVE extract_stream_tool_fragment(_, _)
extract_stream_tool_fragment(fragments, existing) ==
    IF fragments = <<>>
    THEN [fragment |-> <<>>, existing |-> existing, raised |-> <<>>]
    ELSE LET fragment == Head(fragments)
             normalized_fragment == normalize_tool_fragment(fragment)
         IN IF normalized_fragment # <<>>
            THEN [fragment |-> normalized_fragment, existing |-> existing,
                  raised |-> <<>>]
            ELSE IF \/ GetPayload(fragment, "response") # NoPayload
                    \/ GetPayload(fragment, "result") # NoPayload
            THEN UpdateSnapshot(existing, fragment)
            ELSE extract_stream_tool_fragment(Tail(fragments), existing)

RECURSIVE FirstFragmentId(_)
FirstFragmentId(fragments) ==
    IF fragments = <<>> THEN NoneStr
    ELSE IF Truthy(FragmentId(Head(fragments))) THEN FragmentId(Head(fragments))
    ELSE FirstFragmentId(Tail(fragments))

\* accumulate_stream_tool_event(item, stream_state): the snapshot it returns
\* (nothing: <<>>) and stream_state["tool_events"] after the call.
\* tool_events maps an id (a string of atoms) to the merged mapping.
ToolEvent(tool_events, id) ==
    IF id \in DOMAIN tool_events THEN tool_events[id] ELSE EmptyDict

StoreToolEventAlone(tool_events, event_id, merged) ==
    IF Truthy(event_id) THEN [i \in {event_id} |-> merged] ELSE tool_events

\* "stream_state["tool_events"][event_id] = merged" when there is an id.
StoreToolEvent(tool_events, event_id, merged) ==
    IF Truthy(event_id)
    THEN [i \in (DOMAIN tool_events) \cup {event_id} |->
            IF i = event_id THEN merged ELSE tool_events[i]]
    ELSE tool_events

Accumulated(tool_events, event_id, merged) ==
    [snapshot |-> trace_event_from_item(merged),
     tool_events |-> StoreToolEvent(tool_events, event_id, merged),
     raised |-> <<>>]

\* existing is the stored mapping itself when the id has one: what an update
\* in place did to it stays in stream_state whatever happens next.
UpdatedInPlace(tool_events, event_id, existing) ==
    IF event_id \in DOMAIN tool_events
    THEN StoreToolEvent(tool_events, event_id, existing)
    ELSE tool_events

MergeFragment(tool_events, event_id, extracted) ==
    IF extracted.fragment = <<>>
    THEN [snapshot |-> <<>>,
          tool_events |-> UpdatedInPlace(tool_events, event_id, extracted.existing),
          raised |-> extracted.raised]
    ELSE Accumulated(tool_events, event_id,
                     merge_tool_fragment(extracted.existing, extracted.fragment[1]))

ExtractFragment(tool_events, event_id, fragments, existing) ==
    MergeFragment(tool_events, event_id,
                  extract_stream_tool_fragment(fragments, existing))

ExistingToolEvent(tool_events, event_id) ==
    IF Truthy(event_id) THEN ToolEvent(tool_events, event_id) ELSE EmptyDict

AccumulateFragments(tool_events, fragments, event_id) ==
    ExtractFragment(tool_events, event_id, fragments,
                    ExistingToolEvent(tool_events, event_id))

accumulate_stream_tool_event(item, tool_events) ==
    AccumulateFragments(tool_events, collect_stream_fragments(item),
                        FirstFragmentId(collect_stream_fragments(item)))

\* json.dumps(error, default=str) of an error mapping, in this key order.
ErrorKeys == <<"code", "message", "param", "type">>
JsonDumpsError(err) ==
    <<"{">> \o DumpKeys([k \in {ErrorKeys[i] : i \in DOMAIN ErrorKeys} |-> GetStr(err, k)],
                           ErrorKeys)
           \o <<"}">>

extract_stream_error_message_code_first(event) ==
    IF ~Has(event, "error")
    THEN OrElse(coerce_optional_string(GetStr(event, "message")), <<"unknown error">>)
    ELSE IF ~IsMapping(event.error)
    THEN OrElse(coerce_optional_string(event.error.scalar), <<"unknown error">>)
    ELSE LET message == coerce_optional_string(GetStr(event.error, "message"))
             code == coerce_optional_string(GetStr(event.error, "code"))
         IN IF Truthy(code) THEN code
            ELSE IF Truthy(message) THEN message
            ELSE JsonDumpsError(event.error)

\* An error that is not a mapping is written ScalarPayload(s).
extract_stream_error_message(event) ==
    IF ~Has(event, "error")
    THEN OrElse(coerce_optional_string(GetStr(event, "message")), <<"unknown error">>)
    ELSE IF ~IsMapping(event.error)
    THEN OrElse(coerce_optional_string(event.error.scalar), <<"unknown error">>)
    ELSE LET message == coerce_optional_string(GetStr(event.error, "message"))
             code == coerce_optional_string(GetStr(event.error, "code"))
         IN IF Truthy(message) THEN message
            ELSE IF Truthy(code) THEN code
            ELSE JsonDumpsError(event.error)

\* The loop "for summary in summaries: emit_progress(...)" of
\* emit_trace_updates_from_item: status and metadata are read with .get,
\* message with [].
RECURSIVE EmitTraceStreaming(_)
EmitTraceStreaming(summaries) ==
    IF summaries = <<>> THEN [entries |-> <<>>, raised |-> FALSE]
    ELSE LET summary == Head(summaries)
         IN IF Has(summary, "message")
            THEN LET rest == EmitTraceStreaming(Tail(summaries))
                 IN [entries |-> <<emit_progress("trace",
                                        IF Has(summary, "status") THEN summary.status
                                        ELSE "update",
                                        summary.message,
                                        IF Has(summary, "metadata") THEN summary.metadata
                                        ELSE NoMeta)>>
                                 \o rest.entries,
                     raised |-> rest.raised]
            ELSE [entries |-> <<>>, raised |-> TRUE]

\* emit_trace_updates_from_item with a stream_state: the accumulator, then
\* the summaries of the snapshot it yields.
TraceUpdates(tool_events, trace, emitted) ==
    [tool_events |-> tool_events,
     seen |-> trace.seen,
     counted |-> trace.counted,
     entries |-> emitted.entries,
     raised |-> emitted.raised,
     error |-> IF emitted.raised THEN <<KeyError("message")>> ELSE <<>>]

EmitSummaries(tool_events, trace) ==
    TraceUpdates(tool_events, trace, EmitTraceStreaming(trace.summaries))

\* An exception of the accumulator leaves emit_trace_updates_from_item before
\* anything is summarised.
SummariseSnapshot(acc, seen) ==
    IF acc.raised # <<>>
    THEN [tool_events |-> acc.tool_events, seen |-> seen, counted |-> <<>>,
          entries |-> <<>>, raised |-> TRUE, error |-> acc.raised]
    ELSE EmitSummaries(acc.tool_events,
                       summaries_from_trace_events(acc.snapshot, seen))

emit_trace_updates_from_item(item, seen, tool_events) ==
    SummariseSnapshot(accumulate_stream_tool_event(item, tool_events), seen)

\* ------------------------------------------------ execution/streaming.py
StatusEventTypes == {<<"response.created">>, <<"response.in_progress">>}
FailureEventTypes == {<<"response.failed">>, <<"response.error">>, <<"error">>}
TextEventTypes == {<<"response.output_text.delta">>, <<"response.output_text.done">>,
                   <<"response.output_text.added">>, <<"response.content_part.added">>,
                   <<"response.content_part.delta">>}

\* "item or delta or partial or data": the first of them that is a non-empty
\* mapping, wrapped; nothing (<<>>) otherwise.
RECURSIVE FirstFragment(_, _)
FirstFragment(event, keys) ==
    IF keys = <<>> THEN <<>>
    ELSE IF GetDict(event, Head(keys)) # EmptyDict THEN <<event[Head(keys)]>>
    ELSE FirstFragment(event, Tail(keys))

\* Which fragment of the event, if any, handle_stream_event hands to
\* emit_trace_updates_from_item.
TraceFragment(event, normalized) ==
    IF Contains(normalized, "tool_call")
    THEN FirstFragment(event, <<"item", "delta", "partial", "data">>)
    ELSE IF normalized = <<"response.output_item.added">>
    THEN (IF Has(event, "item") THEN <<event.item>> ELSE <<>>)
    ELSE IF normalized = <<"response.output_item.delta">>
    THEN (IF Has(event, "delta") THEN <<event.delta>> ELSE <<>>)
    ELSE <<>>

AlreadyNotedNever(status_events, normalized) == FALSE

\* "if normalized not in status_events" fails
AlreadyNoted(status_events, normalized) == normalized \in status_events

EventEntry(event) == [k |-> "event", ev |-> event]
IsEvent(e) == e.k = "event"
Consumed == Len(SelectSeq(log, IsEvent))

ResponseCandidateKeepFirst(candidate, event) ==
    IF candidate = <<>> THEN <<event.response>> ELSE candidate

\* "if response_candidate is not None: final_response = response_candidate"
\* for a response.completed event that carries a response.
ResponseCandidate(candidate, event) == <<event.response>>

\* One iteration of "for event in stream": handle_stream_event and the
\* assignment of its result to final_response.
StreamEvent(event) ==
    LET event_type == coerce_optional_string(GetStr(event, "type"))
        normalized == Lower(event_type)
        head == <<EventEntry(event)>>
        quiet == /\ Continue(head)
                 /\ UNCHANGED <<seen_tokens, summarised, final_response,
                                stream_state>>
    IN
    /\ pc = "streaming"
    /\ Consumed < MaxStream
    /\ IF ~Truthy(event_type) THEN quiet
       ELSE IF normalized \in StatusEventTypes
       THEN IF AlreadyNoted(stream_state.status_events, normalized) THEN quiet
            ELSE /\ stream_state' = [stream_state EXCEPT
                                        !.status_events = @ \cup {normalized}]
                 /\ Continue(head \o
                        <<emit_progress("deep_research",
                              IF normalized = <<"response.created">> THEN "starting"
                              ELSE "in_progress",
                              "status event",
                              [status |-> event_type, poll_attempt |-> 0])>>)
                 /\ UNCHANGED <<seen_tokens, summarised, final_response>>
       ELSE IF normalized \in FailureEventTypes
       THEN /\ Raise(DeepResearchError("stream reported an error",
                        OrElse(extract_stream_error_message(event), event_type)), head)
            /\ UNCHANGED <<seen_tokens, summarised, final_response, stream_state>>
       ELSE IF Contains(normalized, "tool_call")
               \/ normalized \in {<<"response.output_item.added">>,
                                  <<"response.output_item.delta">>}
       THEN LET fragment == TraceFragment(event, normalized)
            IN IF fragment = <<>> THEN quiet
               ELSE LET upd == emit_trace_updates_from_item(
                                   fragment[1], seen_tokens, stream_state.tool_events)
                    IN /\ stream_state' = [stream_state EXCEPT
                                              !.tool_events = upd.tool_events]
                       /\ seen_tokens' = upd.seen
                       /\ summarised' = summarised \o upd.counted
                       /\ final_response' = final_response
                       /\ IF upd.raised
                          THEN Raise(upd.error[1], head \o upd.entries)
                          ELSE Continue(head \o upd.entries)
       ELSE IF normalized \in TextEventTypes THEN quiet
       ELSE IF normalized = <<"response.completed">> /\ Has(event, "response")
       THEN /\ final_response' = ResponseCandidate(final_response, event)
            /\ Continue(head)
            /\ UNCHANGED <<seen_tokens, summarised, stream_state>>
       ELSE quiet
    /\ UNCHANGED <<build, cancellation, config, response, attempts, current>>

FallbackConsultedAlways(candidate, has_get_final_response) == has_get_final_response

\* "final_response is None and hasattr(stream, 'get_final_response')"
FallbackConsulted(candidate, has_get_final_response) ==
    candidate = <<>> /\ has_get_final_response

\* The iterator is exhausted: the get_final_response fallback and the final
\* validation of execute_deep_research_streaming.  has_get_final_response and
\* fallback describe the stream object the client returned.
StreamEnd(has_get_final_response, fallback) ==
    /\ pc = "streaming"
    /\ LET consulted == FallbackConsulted(final_response, has_get_final_response)
           head == <<[k |-> "stream_end",
                      has_get_final_response |-> has_get_final_response]>>
                   \o (IF consulted
                       THEN <<[k |-> "get_final_response", ret |-> fallback]>>
                       ELSE <<>>)
           final == IF consulted THEN fallback ELSE final_response
       IN /\ final_response' = final
          /\ IF final = <<>>
             THEN Raise(DeepResearchError("stream completed without a final response",
                                          NoneStr), head)
             ELSE IF FinalStatus(final[1]) # <<"completed">>
             THEN Raise(DeepResearchError("did not complete successfully",
                                          FinalStatus(final[1])), head)
             ELSE Finish(final[1], head \o
                     <<emit_progress("deep_research", "completed", "stream finished",
                           [status |-> FinalStatus(final[1]), poll_attempt |-> 0])>>)
    /\ UNCHANGED <<build, cancellation, config, response, attempts, current, seen_tokens, summarised,
                   stream_state>>

BackgroundOverrideAlways(background) ==
    <<emit_progress("deep_research", "update", "disabling background mode", NoMeta)>>

\* "if payload.get("background"): payload["background"] = False" and the
\* note emitted with it.
BackgroundOverride(background) ==
    IF background
    THEN <<emit_progress("deep_research", "update", "disabling background mode",
                         NoMeta)>>
    ELSE <<>>

\* execute_deep_research with stream_progress: the starting event, then
\* execute_deep_research_streaming up to the first event of the stream.
SubmitStream ==
    /\ pc = "init"
    /\ HasTools(config)
    /\ config.stream_progress
    /\ Commit(Submission(BackgroundOverride(config.background),
                         CreateCall(FALSE, TRUE))
              \o <<emit_progress("deep_research", "in_progress", "streaming",
                                 NoMeta)>>,
              "streaming", result, error)
    /\ seen_tokens' = NewSeenTokens(seen_tokens)
    /\ stream_state' = InitStreamState
    /\ final_response' = <<>>
    /\ UNCHANGED <<build, cancellation, config, response, attempts, current,
                   summarised>>

\* ------------------------------------------------------- stream inputs
FragSearchDeltaA ==
    [id |-> <<"x">>, type |-> <<"web_search", "_delta">>,
     action |-> [query_delta |-> <<"a", SP>>]]
FragSearchDeltaB ==
    [call_id |-> <<"x">>, tool_name |-> <<"web_search">>, state |-> <<"searching">>,
     arguments |-> [dict |-> [query_delta |-> <<"b">>]]]
FragResult == [id |-> <<"x">>, result |-> [body |-> <<"ok">>]]
FragBareA == [id |-> <<"x">>, query_delta |-> <<"a">>]
FragActionScalar ==
    [id |-> <<"x">>, type |-> <<"web_search", "_call">>,
     action |-> ScalarPayload(<<"text">>)]

FinalOk == [id |-> <<"resp_a">>, status |-> <<"completed">>, output |-> <<>>]
FinalBlank == [id |-> <<"resp_a">>, status |-> NoneStr, output |-> <<>>]
FinalFailed == [id |-> <<"resp_b">>, status |-> <<"failed">>, output |-> <<>>]
FinalResponses == {FinalOk, FinalBlank, FinalFailed}

StreamEvents ==
    {[type |-> <<"response.created">>],
     [type |-> <<"RESPONSE.CREATED">>],
     [type |-> <<"response.failed">>,
      error |-> [message |-> <<"rate limited">>, code |-> <<"429">>]],
     [type |-> <<"error">>, error |-> [message |-> <<SP>>, code |-> <<"E42">>]],
     [type |-> <<"RESPONSE.FAILED">>, message |-> <<"boom">>],
     [type |-> <<"response.output_item.added">>, item |-> ItemSearch],
     [type |-> <<"response.output_item.added">>, item |-> ItemSearchNoQuery],
     [type |-> <<"response.", "tool_call", ".delta">>, delta |-> FragSearchDeltaA],
     [type |-> <<"response.", "tool_call", ".delta">>, data |-> FragSearchDeltaB],
     [type |-> <<"response.output_item.delta">>, delta |-> FragResult],
     [type |-> <<"response.", "tool_call", ".delta">>, delta |-> FragBareA],
     [type |-> <<"response.output_item.added">>, item |-> FragActionScalar],
     [type |-> <<"response.output_text.delta">>],
     [type |-> <<"response.completed">>, response |-> FinalOk],
     [type |-> <<"response.completed">>, response |-> FinalFailed],
     [type |-> <<"Response.Completed">>]}

\* ------------------------------------------------------------- parsing.py
\* A JSON text is a string whose atoms are the structural tokens { } [ ] : ,
\* the quote, number and null atoms, and words.  A decoded value is tagged by
\* its python type: [obj |-> mapping], [list |-> sequence], [str |-> string],
\* [num |-> atom] or JNull.  Quote is the double quote and Fence the three
\* backticks of a markdown code fence.
Quote == "<quote>"
Fence == "<fence>"
NumberAtoms == {"0", "1", "3", "42"}
JNull == [null |-> TRUE]
JStr(s) == [str |-> s]
JNum(a) == [num |-> a]
JList(s) == [list |-> s]
JObj(m) == [obj |-> m]

IsObj(v) == Has(v, "obj")
IsList(v) == Has(v, "list")
IsStr(v) == Has(v, "str")
IsNum(v) == Has(v, "num")

ParseFail == [ok |-> FALSE, value |-> JNull, next |-> 0]
ParseOk(v, n) == [ok |-> TRUE, value |-> v, next |-> n]
Tok(t, i) == IF i \in DOMAIN t THEN t[i] ELSE "<eof>"

\* json whitespace: spaces outside string literals are skipped.
RECURSIVE Unspace(_, _)
Unspace(t, in_string) ==
    IF t = <<>> THEN <<>>
    ELSE IF Head(t) = Quote THEN <<Quote>> \o Unspace(Tail(t), ~in_string)
    ELSE IF Head(t) = SP /\ ~in_string THEN Unspace(Tail(t), in_string)
    ELSE <<Head(t)>> \o Unspace(Tail(t), in_string)

ClosingQuote(t, i) ==
    IF \E j \in (i + 1)..Len(t) : t[j] = Quote
    THEN CHOOSE j \in (i + 1)..Len(t) :
            t[j] = Quote /\ \A m \in (i + 1)..(j - 1) : t[m] # Quote
    ELSE 0

ParseString(t, i, close) ==
    IF close = 0 THEN ParseFail
    ELSE ParseOk(JStr(SubSeq(t, i + 1, close - 1)), close + 1)

RECURSIVE ParseValue(_, _), ParseMembers(_, _, _), ParseElements(_, _, _),
          MemberNext(_, _, _, _), ElementNext(_, _, _)

\* after "key": value inside an object
MemberNext(t, key, members, parsed) ==
    IF ~parsed.ok THEN ParseFail
    ELSE IF Tok(t, parsed.next) = ","
    THEN ParseMembers(t, parsed.next + 1, Put(members, key, parsed.value))
    ELSE IF Tok(t, parsed.next) = "}"
    THEN ParseOk(JObj(Put(members, key, parsed.value)), parsed.next + 1)
    ELSE ParseFail

ParseMembers(t, i, members) ==
    IF Tok(t, i) = Quote /\ Tok(t, i + 2) = Quote /\ Tok(t, i + 3) = ":"
    THEN MemberNext(t, t[i + 1], members, ParseValue(t, i + 4))
    ELSE ParseFail

\* after a value inside a list
ElementNext(t, elements, parsed) ==
    IF ~parsed.ok THEN ParseFail
    ELSE IF Tok(t, parsed.next) = ","
    THEN ParseElements(t, parsed.next + 1, Append(elements, parsed.value))
    ELSE IF Tok(t, parsed.next) = "]"
    THEN ParseOk(JList(Append(elements, parsed.value)), parsed.next + 1)
    ELSE ParseFail

ParseElements(t, i, elements) == ElementNext(t, elements, ParseValue(t, i))

ParseValue(t, i) ==
    IF Tok(t, i) = Quote THEN ParseString(t, i, ClosingQuote(t, i))
    ELSE IF Tok(t, i) = "{"
    THEN (IF Tok(t, i + 1) = "}" THEN ParseOk(JObj(EmptyDict), i + 2)
          ELSE ParseMembers(t, i + 1, EmptyDict))
    ELSE IF Tok(t, i) = "["
    THEN (IF Tok(t, i + 1) = "]" THEN ParseOk(JList(<<>>), i + 2)
          ELSE ParseElements(t, i + 1, <<>>))
    ELSE IF Tok(t, i) \in NumberAtoms THEN ParseOk(JNum(t[i]), i + 1)
    ELSE IF Tok(t, i) = "null" THEN ParseOk(JNull, i + 1)
    ELSE ParseFail

WholeText(t, parsed) ==
    IF parsed.ok /\ parsed.next = Len(t) + 1 THEN parsed ELSE ParseFail

\* json.loads: the value, or a JSONDecodeError (ok is FALSE).
JsonLoadsTokens(t) == WholeText(t, ParseValue(t, 1))
JsonLoads(text) == JsonLoadsTokens(Unspace(text, FALSE))

\* "".join(parts)
RECURSIVE Concat(_)
Concat(parts) == IF parts = <<>> THEN <<>> ELSE Head(parts) \o Concat(Tail(parts))

\* python truthiness of a decoded value
JTruthy(v) ==
    IF IsObj(v) THEN DOMAIN v.obj # {}
    ELSE IF IsList(v) THEN v.list # <<>>
    ELSE IF IsStr(v) THEN v.str # <<>>
    ELSE IF IsNum(v) THEN v.num # "0"
    ELSE FALSE

\* _iter_text_fragments: the non-empty strings of a value in visiting order;
\* a list is visited element by element, a mapping under its keys text,
\* value and content, a number gives its digits and None gives nothing.
RECURSIVE iter_text_fragments(_), ListFragments(_), KeyFragments(_, _)
iter_text_fragments(v) ==
    IF IsStr(v) THEN (IF v.str # <<>> THEN <<v.str>> ELSE <<>>)
    ELSE IF IsList(v) THEN ListFragments(v.list)
    ELSE IF IsObj(v) THEN KeyFragments(v.obj, <<"text", "value", "content">>)
    ELSE IF IsNum(v) THEN <<<<v.num>>>>
    ELSE <<>>

ListFragments(items) ==
    IF items = <<>> THEN <<>>
    ELSE iter_text_fragments(Head(items)) \o ListFragments(Tail(items))

KeyFragments(d, keys) ==
    IF keys = <<>> THEN <<>>
    ELSE (IF Has(d, Head(keys)) THEN iter_text_fragments(d[Head(keys)]) ELSE <<>>)
         \o KeyFragments(d, Tail(keys))

\* One text part per content whose fragments are not empty.
JoinedPart(fragments) == IF fragments = <<>> THEN <<>> ELSE <<Concat(fragments)>>

RECURSIVE ContentParts(_)
ContentParts(content) ==
    IF content = <<>> THEN <<>>
    ELSE JoinedPart(iter_text_fragments(Head(content))) \o ContentParts(Tail(content))

\* get_field(item, "content") or []
ContentOf(item) ==
    IF Has(item, "content") /\ IsList(item.content) THEN item.content.list ELSE <<>>

ItemTextParts(item, item_type) ==
    IF item_type = <<"message">> THEN ContentParts(ContentOf(item))
    ELSE IF item_type = <<"output_text">>
    THEN JoinedPart(KeyFragments(item, <<"text", "value", "content">>))
    ELSE <<>>

RECURSIVE TextParts(_)
TextParts(output_items) ==
    IF output_items = <<>> THEN <<>>
    ELSE ItemTextParts(Head(output_items),
                       coerce_optional_string(GetStr(Head(output_items), "type")))
         \o TextParts(Tail(output_items))

Decoded(v) == [ok |-> TRUE, value |-> v, error |-> <<>>]
Failed(exc) == [ok |-> FALSE, value |-> EmptyStr, error |-> <<exc>>]

TextFromOutput(parts) ==
    IF parts # <<>> THEN Decoded(Strip(Concat(parts)))
    ELSE Failed(DeepResearchError("did not include textual output", NoneStr))

\* get_field(response, "output_text")
OutputTextOf(resp) == IF Has(resp, "output_text") THEN resp.output_text ELSE JNull

TextFromFragments(resp, fragments) ==
    IF fragments # <<>> THEN Decoded(Strip(Concat(fragments)))
    ELSE TextFromOutput(TextParts(resp.output))

collect_response_text_output_first(resp) ==
    IF TextParts(resp.output) # <<>> THEN TextFromOutput(TextParts(resp.output))
    ELSE TextFromFragments(resp, iter_text_fragments(OutputTextOf(resp)))

\* The text of a response, or the DeepResearchError raised for it.
collect_response_text(resp) ==
    IF JTruthy(OutputTextOf(resp))
    THEN TextFromFragments(resp, iter_text_fragments(OutputTextOf(resp)))
    ELSE TextFromOutput(TextParts(resp.output))

RECURSIVE StripFence(_)
StripFence(s) ==
    IF s # <<>> /\ Head(s) = Fence THEN StripFence(Tail(s))
    ELSE IF s # <<>> /\ s[Len(s)] = Fence THEN StripFence(SubSeq(s, 1, Len(s) - 1))
    ELSE s

StartsWith(s, atom) == s # <<>> /\ Head(s) = atom

DropJsonTag(s) == IF StartsWith(s, "json") THEN Strip(Tail(s)) ELSE s

\* "if candidate.startswith(fence)": the fence and its language tag removed.
Unfenced(s) == IF StartsWith(s, Fence) THEN DropJsonTag(Strip(StripFence(s))) ELSE s

Find(s, atom) ==
    IF Contains(s, atom)
    THEN CHOOSE i \in DOMAIN s : s[i] = atom /\ \A j \in 1..(i - 1) : s[j] # atom
    ELSE 0
RFind(s, atom) ==
    IF Contains(s, atom)
    THEN CHOOSE i \in DOMAIN s : s[i] = atom /\ \A j \in (i + 1)..Len(s) : s[j] # atom
    ELSE 0

LoadObject(parsed) ==
    IF ~parsed.ok THEN Failed(DeepResearchError("was not valid JSON", NoneStr))
    ELSE IF ~IsObj(parsed.value)
    THEN Failed(DeepResearchError("Expected JSON object at top level", NoneStr))
    ELSE Decoded(parsed.value.obj)

\* "if candidate and not candidate.startswith("{")": the slice from the first
\* opening brace to the last closing brace.
Braced(s) ==
    IF s = <<>> \/ StartsWith(s, "{") THEN LoadObject(JsonLoads(s))
    ELSE IF Find(s, "{") = 0 \/ RFind(s, "}") = 0
    THEN Failed(DeepResearchError("Unable to locate JSON object", NoneStr))
    ELSE LoadObject(JsonLoads(SubSeq(s, Find(s, "{"), RFind(s, "}"))))

\* The mapping a text decodes to, or the DeepResearchError raised for it.
decode_json_payload(text) == Braced(Unfenced(Strip(text)))

DecodeText(collected) ==
    IF collected.ok THEN decode_json_payload(collected.value) ELSE collected

parse_deep_research_response(resp) == DecodeText(collect_response_text(resp))

RECURSIVE TraceEvents(_)
TraceEvents(output_items) ==
    IF output_items = <<>> THEN <<>>
    ELSE trace_event_from_item(Head(output_items)) \o TraceEvents(Tail(output_items))

extract_trace_events(resp) == TraceEvents(resp.output)

\* ------------------------------------------------------------ the system
\* execute_deep_research called on its own: no build_compendium around it and
\* no CancellationContext.
NoBuild == [pc |-> "off", topic |-> <<>>, result |-> <<>>, error |-> <<>>]
NoCancellation == [pc |-> "off"]

\* The twin of a run that has not started.
TwinOf(at, built) ==
    [calls |-> <<>>, pc |-> at, result |-> <<>>, error |-> <<>>, build |-> built]

Init ==
    /\ config \in Configs
    /\ pc = "init"
    /\ log = <<>>
    /\ response = <<>>
    /\ attempts = 0
    /\ current = <<>>
    /\ seen_tokens = {}
    /\ summarised = <<>>
    /\ final_response = <<>>
    /\ stream_state = InitStreamState
    /\ result = <<>>
    /\ error = <<>>
    /\ build = NoBuild
    /\ cancellation = NoCancellation
    /\ twin = TwinOf(pc, build)

Next ==
    \/ SubmitNoTools
    \/ SubmitSync
    \/ SubmitPoll
    \/ SubmitStream
    \/ PollTick
    \/ \E event \in StreamEvents : StreamEvent(event)
    \/ \E has_get_final_response \in BOOLEAN, fallback \in {<<>>} \cup {<<r>> : r \in FinalResponses} :
          StreamEnd(has_get_final_response, fallback)

Spec == Init /\ [][Next]_vars

\* await_completion alone: the runs whose submitted response is still
\* running.  The loop is sequential code, so a tick that can be taken is
\* taken.
InitPoll == Init /\ HasTools(config) /\ ~config.stream_progress

NextPoll == SubmitPoll \/ PollTick

SpecPoll == InitPoll /\ [][NextPoll]_vars /\ WF_vars(NextPoll)

\* execute_deep_research called again by its caller after it returned or
\* raised, with the same client and config.  The locals of the finished call
\* are gone; the model's variables keep their values until the next call
\* assigns its own.  The entry marks where the call starts in log and in
\* summarised.
Invocations == Len(SelectSeq(log, LAMBDA e : e.k = "invoke"))

InvokeAgain ==
    /\ pc \in {"returned", "raised"}
    /\ Invocations + 1 < MaxRuns
    /\ Commit(<<[k |-> "invoke", summarised |-> Len(summarised)]>>, "init", <<>>, <<>>)
    /\ UNCHANGED <<build, cancellation, config, response, attempts, current,
                   seen_tokens, summarised, final_response, stream_state>>

\* The runs of one client in a row: no tools, a polling budget of one
\* retrieval, or a stream.
InitRuns ==
    /\ Init
    /\ config.use_web_search = config.enable_code_interpreter
    /\ config.background
    /\ config.progress_callback = "returns"
    /\ \/ ~HasTools(config)
       \/ config.stream_progress
       \/ config.max_poll_attempts = 1

\* The events the streams of these runs deliver; a stream that ends has no
\* get_final_response.
RunEvents ==
    {[type |-> <<"response.created">>],
     [type |-> <<"RESPONSE.CREATED">>],
     [type |-> <<"response.in_progress">>],
     [type |-> <<"response.failed">>, message |-> <<"boom">>],
     [type |-> <<"response.output_item.added">>, item |-> ItemSearch],
     [type |-> <<"response.", "tool_call", ".delta">>, delta |-> FragSearchDeltaA],
     [type |-> <<"response.completed">>, response |-> FinalOk]}

NextRuns ==
    \/ SubmitNoTools
    \/ SubmitSync
    \/ SubmitPoll
    \/ SubmitStream
    \/ PollTick
    \/ \E event \in RunEvents : StreamEvent(event)
    \/ StreamEnd(FALSE, <<>>)
    \/ InvokeAgain

SpecRuns == InitRuns /\ [][NextRuns]_vars

\* ------------------------------------------- pure-function specification
\* summaries_from_trace_events called repeatedly with one batch and one
\* persistent seen_tokens set.  response holds the batch, seen_tokens the set,
\* attempts the number of calls made and log one entry per call.
ItemFind ==
    [type |-> <<"find_in_page", "_call">>, id |-> <<"fp_1">>, status |-> <<"completed">>,
     action |-> NoAction]
ItemPython ==
    [type |-> <<"tool", "_call">>, id |-> <<"py_1">>, status |-> <<"completed">>,
     action |-> [type |-> <<"python">>, name |-> NoneStr, query |-> NoneStr]]

TraceItems == Items \cup {ItemFind, ItemPython}

InitTrace ==
    /\ config \in {c \in Configs : c.max_poll_attempts = MaxPoll /\ c.background
                                     /\ c.use_web_search /\ c.enable_code_interpreter
                                     /\ ~c.stream_progress
                                     /\ c.progress_callback = "returns"}
    /\ pc = "trace_fn"
    /\ log = <<>>
    /\ response \in {<<[id |-> <<"resp_a">>, status |-> <<"in_progress">>, output |-> o]>> :
                        o \in SeqsUpTo(TraceItems, MaxBatch)}
    /\ attempts = 0
    /\ current = <<>>
    /\ seen_tokens \in SUBSET {trace_event_token(e) :
                                 e \in {iter_trace_progress_events([output |-> <<i>>])[1] :
                                          i \in {ItemSearch, ItemCode}}}
    /\ summarised = <<>>
    /\ final_response = <<>>
    /\ stream_state = InitStreamState
    /\ result = <<>>
    /\ error = <<>>
    /\ build = NoBuild
    /\ cancellation = NoCancellation
    /\ twin = TwinOf(pc, build)

\* The calls one behaviour makes.
CallBound == IF pc = "token_fn" THEN MaxTokenCalls ELSE MaxCalls

CallSummaries ==
    /\ pc \in {"trace_fn", "token_fn"}
    /\ attempts < CallBound
    /\ LET trace == summaries_from_trace_events(
                        iter_trace_progress_events(response[1]), seen_tokens)
       IN /\ seen_tokens' = trace.seen
          /\ summarised' = summarised \o trace.counted
          /\ Continue(<<[k |-> "summaries", ret |-> trace.summaries,
                          seen_before |-> seen_tokens,
                          seen_after |-> trace.seen]>>)
    /\ attempts' = attempts + 1
    /\ UNCHANGED <<build, cancellation, config, response, current, final_response,
                   stream_state>>

NextTrace == CallSummaries

SpecTrace == InitTrace /\ [][NextTrace]_vars

\* trace_event_token applied to the events of a batch, as they are and with
\* another status and a response attached, before and after calls of
\* summaries_from_trace_events on the batch.
\* A call whose status text holds the separator and the word query.
ItemSearchColonStatus ==
    [type |-> <<"web_search", "_call">>, id |-> <<"ws_1">>,
     status |-> <<"completed", ":", "query", ":", "Q1">>,
     action |-> [type |-> <<"search">>, name |-> NoneStr, query |-> NoneStr]]

TokenItems == {ItemSearch, ItemSearchNoId, ItemCode, ItemSearchColonStatus}

InitToken ==
    /\ config \in {c \in Configs : c.max_poll_attempts = MaxPoll /\ c.background
                                     /\ c.use_web_search /\ c.enable_code_interpreter
                                     /\ ~c.stream_progress
                                     /\ c.progress_callback = "returns"}
    /\ pc = "token_fn"
    /\ log = <<>>
    /\ response \in {<<[id |-> <<"resp_a">>, status |-> <<"in_progress">>, output |-> o]>> :
                        o \in SeqsUpTo(TokenItems, MaxBatch)}
    /\ attempts = 0
    /\ current = <<>>
    /\ seen_tokens = {}
    /\ summarised = <<>>
    /\ final_response = <<>>
    /\ stream_state = InitStreamState
    /\ result = <<>>
    /\ error = <<>>
    /\ build = NoBuild
    /\ cancellation = NoCancellation
    /\ twin = TwinOf(pc, build)

\* The same event reported later: another status, and the tool's response.
Restated(event) ==
    [id |-> event.id, type |-> event.type, status |-> <<"failed">>,
     action |-> event.action, response |-> [text |-> <<"r">>]]

\* The same event with blanks around its status and its query.
Padded(event) ==
    [id |-> event.id, type |-> event.type, status |-> <<SP>> \o event.status,
     action |-> [event.action EXCEPT
                    !.query = IF @ = NoneStr THEN @ ELSE @ \o <<SP>>]]

TokenCall(event) ==
    [k |-> "token", event |-> event, seen |-> seen_tokens,
     ret |-> trace_event_token(event)]

CallToken ==
    /\ pc = "token_fn"
    /\ attempts < CallBound
    /\ \E i \in DOMAIN iter_trace_progress_events(response[1]) :
          \E event \in {iter_trace_progress_events(response[1])[i],
                         Restated(iter_trace_progress_events(response[1])[i]),
                         Padded(iter_trace_progress_events(response[1])[i])} :
              Continue(<<TokenCall(event)>>)
    /\ attempts' = attempts + 1
    /\ UNCHANGED <<build, cancellation, config, response, current, final_response,
                   stream_state, seen_tokens, summarised>>

NextToken == CallToken \/ CallSummaries

SpecToken == InitToken /\ [][NextToken]_vars

\* ------------------------------------------- the merge functions alone
\* merge_action_payload and merge_response_payload applied, call after call,
\* to what the previous call returned, and emit_trace_updates_from_item
\* applied to fragments with one persistent stream_state and seen_tokens.
\* current holds the payloads merged so far, attempts the number of calls
\* made and log one entry per call, followed by what the call emitted.
ActionIncomings ==
    {One("query_delta", <<"a", SP>>),
     One("query_delta", <<"b">>),
     One("query", <<"Q1">>),
     One("metadata", One("source", <<"s1">>)),
     One("metadata", One("name_delta", <<"n">>)),
     ScalarPayload(<<"text">>)}

ResponseIncomings ==
    {One("headers", One("a", <<"1">>)),
     One("headers", One("b", <<"2">>)),
     One("body", <<"ok">>),
     ScalarPayload(<<"text">>),
     NoPayload}

SearchCallType == <<"web_search", "_call">>

Typed(id, key, payload) ==
    Put(Put(One("type", SearchCallType), "id", id), key, payload)

MergeItems ==
    {Typed(<<"x">>, "action", One("query_delta", <<"a", SP>>)),
     Typed(<<"y">>, "action", One("query", <<"Q1">>)),
     Typed(<<"x">>, "response", One("headers", One("a", <<"1">>))),
     Typed(<<"x">>, "response", ScalarPayload(<<"text">>)),
     Put(One("id", <<"x">>), "response", One("headers", One("b", <<"2">>))),
     Put(One("id", <<"x">>), "response", ScalarPayload(<<"text">>)),
     Put(One("id", <<"y">>), "result", One("body", <<"ok">>)),
     Put(One("id", <<"x">>), "query_delta", <<"a">>),
     Put(One("type", SearchCallType), "action", One("query", <<"Q1">>)),
     One("response", One("body", <<"ok">>))}

InitMerge ==
    /\ config \in {c \in Configs : c.max_poll_attempts = MaxPoll /\ c.background
                                     /\ c.use_web_search /\ c.enable_code_interpreter
                                     /\ c.stream_progress
                                     /\ c.progress_callback = "returns"}
    /\ pc = "merge_fn"
    /\ log = <<>>
    /\ response = <<>>
    /\ attempts = 0
    /\ current = <<[action |-> NoPayload, response |-> NoPayload]>>
    /\ seen_tokens = {}
    /\ summarised = <<>>
    /\ final_response = <<>>
    /\ stream_state = InitStreamState
    /\ result = <<>>
    /\ error = <<>>
    /\ build = NoBuild
    /\ cancellation = NoCancellation
    /\ twin = TwinOf(pc, build)

MergeCall(fn, existing, incoming, ret) ==
    [k |-> fn, existing |-> existing, incoming |-> incoming, ret |-> ret]

CallMergeAction ==
    /\ pc = "merge_fn"
    /\ attempts < MaxMergeCalls
    /\ \E incoming \in ActionIncomings :
          LET ret == merge_action_payload(current[1].action, incoming)
          IN /\ current' = <<[current[1] EXCEPT !.action = ret]>>
             /\ Continue(<<MergeCall("merge_action", current[1].action, incoming, ret)>>)
    /\ attempts' = attempts + 1
    /\ UNCHANGED <<build, cancellation, config, response, final_response,
                   stream_state, seen_tokens, summarised>>

CallMergeResponse ==
    /\ pc = "merge_fn"
    /\ attempts < MaxMergeCalls
    /\ \E incoming \in ResponseIncomings :
          LET ret == merge_response_payload(current[1].response, incoming)
          IN /\ current' = <<[current[1] EXCEPT !.response = ret]>>
             /\ Continue(<<MergeCall("merge_response", current[1].response,
                                     incoming, ret)>>)
    /\ attempts' = attempts + 1
    /\ UNCHANGED <<build, cancellation, config, response, final_response,
                   stream_state, seen_tokens, summarised>>

\* One call of emit_trace_updates_from_item: the accumulator, then the
\* summaries of the snapshot.  An exception goes to the caller of the call.
TraceUpdatesCall(item, acc, upd) ==
    [k |-> "trace_updates", item |-> item,
     event_id |-> FirstFragmentId(collect_stream_fragments(item)),
     before |-> stream_state.tool_events, after |-> upd.tool_events,
     seen_before |-> seen_tokens, seen_after |-> upd.seen,
     snapshot |-> acc.snapshot, accumulator_raised |-> acc.raised # <<>>,
     emitted |-> Len(upd.entries), raised |-> upd.raised]

CallEmitTraceUpdates ==
    /\ pc = "merge_fn"
    /\ attempts < MaxMergeCalls
    /\ \E item \in MergeItems :
          LET acc == accumulate_stream_tool_event(item, stream_state.tool_events)
              upd == SummariseSnapshot(acc, seen_tokens)
          IN /\ stream_state' = [stream_state EXCEPT !.tool_events = upd.tool_events]
             /\ seen_tokens' = upd.seen
             /\ summarised' = summarised \o upd.counted
             /\ Continue(<<TraceUpdatesCall(item, acc, upd)>> \o upd.entries)
    /\ attempts' = attempts + 1
    /\ UNCHANGED <<build, cancellation, config, response, current, final_response>>

NextMerge == CallMergeAction \/ CallMergeResponse \/ CallEmitTraceUpdates

SpecMerge == InitMerge /\ [][NextMerge]_vars

\* -------------------------------- extract_stream_error_message alone
\* The function applied to failure events; log holds one entry per call.
FailureEvents ==
    {One("error", Put(One("message", <<"rate limited">>), "code", <<"429">>)),
     One("error", Put(One("message", <<SP>>), "code", <<"E42">>)),
     One("error", One("code", <<"rate_limited">>)),
     One("error", One("message", <<SP, "slow down", SP>>)),
     One("error", One("type", <<"server_error">>)),
     One("error", ScalarPayload(<<"bad gateway">>)),
     Put(One("error", One("code", <<"E42">>)), "message", <<"top">>),
     One("message", <<"boom">>),
     One("type", <<"error">>)}

InitError ==
    /\ config \in {c \in Configs : c.max_poll_attempts = MaxPoll /\ c.background
                                     /\ c.use_web_search /\ c.enable_code_interpreter
                                     /\ c.stream_progress
                                     /\ c.progress_callback = "returns"}
    /\ pc = "error_fn"
    /\ log = <<>>
    /\ response = <<>>
    /\ attempts = 0
    /\ current = <<>>
    /\ seen_tokens = {}
    /\ summarised = <<>>
    /\ final_response = <<>>
    /\ stream_state = InitStreamState
    /\ result = <<>>
    /\ error = <<>>
    /\ build = NoBuild
    /\ cancellation = NoCancellation
    /\ twin = TwinOf(pc, build)

CallExtractError ==
    /\ pc = "error_fn"
    /\ attempts < MaxErrorCalls
    /\ \E event \in FailureEvents :
          Continue(<<[k |-> "extract_error", event |-> event,
                      ret |-> extract_stream_error_message(event)]>>)
    /\ attempts' = attempts + 1
    /\ UNCHANGED <<build, cancellation, config, response, current, final_response,
                   stream_state, seen_tokens, summarised>>

NextError == CallExtractError

SpecError == InitError /\ [][NextError]_vars

\* ------------------------------------------------------------ planning.py
\* An exception other than DeepResearchError and KeyError.
Exception(kind, msg) ==
    [kind |-> kind, msg |-> msg, detail |-> NoneStr, research_id |-> NoneStr]

\* str(exc): the message, which for a KeyError is the quoted key.
StrOf(exc) ==
    [msg |-> exc.msg, detail |-> exc.detail, quoted |-> exc.kind = "KeyError"]

\* What the planner's client.responses.create does: it raises, or returns a
\* response.
PlannerRaises == [raises |-> TRUE, response |-> <<>>]
\* The output_text of a response: a string, or None.
TextField(s) == IF s = NoneStr THEN JNull ELSE JStr(s)

PlannerReturns(output_text, output) ==
    [raises |-> FALSE,
     response |-> <<[output_text |-> TextField(output_text), output |-> output]>>]

Key(k) == <<Quote, k, Quote, ":">>
Lit(word) == <<Quote, word, Quote>>

PlanTextFull ==
    <<"{">> \o Key("key_sections") \o <<"[", "{">> \o Key("title") \o Lit("Intro")
    \o <<"}", "]", ",">> \o Key("research_questions") \o <<"[">> \o Lit("q")
    \o <<"]", "}">>
PlanTextFenced ==
    <<Fence, "json", SP, "{">> \o Key("primary_objective") \o Lit("x")
    \o <<"}", SP, Fence>>
PlanTextStringSections ==
    <<"{">> \o Key("key_sections") \o <<"[">> \o Lit("Intro") \o <<"]", "}">>
PlanTextNumberSections == <<"{">> \o Key("key_sections") \o <<"3", "}">>
PlanTextProse == <<"no", SP, "plan">>
PlanTextList == <<"[", "1", "]">>
PlanTextTruncated == <<"{">> \o Key("key_sections") \o <<"[">>

MessageItem(text) ==
    [type |-> <<"message">>, id |-> <<"msg_2">>, status |-> <<"completed">>,
     action |-> NoAction,
     content |-> JList(<<JObj([text |-> JStr(text)])>>)]

PlannerOutcomes ==
    {PlannerRaises,
     PlannerReturns(PlanTextFull, <<>>),
     PlannerReturns(PlanTextFenced, <<>>),
     PlannerReturns(NoneStr, <<MessageItem(PlanTextFull)>>),
     PlannerReturns(PlanTextStringSections, <<>>),
     PlannerReturns(PlanTextNumberSections, <<>>),
     PlannerReturns(PlanTextProse, <<>>),
     PlannerReturns(PlanTextList, <<>>),
     PlannerReturns(PlanTextTruncated, <<>>),
     PlannerReturns(NoneStr, <<ItemMessage>>),
     PlannerReturns(EmptyStr, <<>>)}

PlanCall(planner) == [k |-> "plan_create", ret |-> planner]
IsPlanCall(e) == e.k = "plan_create"

Planned(plan) == [plan |-> plan, error |-> <<>>]
PlanRaised(exc) == [plan |-> <<>>, error |-> <<exc>>]

PlanOrRaise(decoded) ==
    IF decoded.ok THEN Planned(<<decoded.value>>) ELSE PlanRaised(decoded.error[1])

PlanOrNone(decoded) ==
    IF decoded.ok THEN Planned(<<decoded.value>>) ELSE Planned(<<>>)

\* The plan (absent: None), or the exception of the call to the model.
generate_research_plan(planner) ==
    IF planner.raises THEN PlanRaised(Exception("APIError", "planner call failed"))
    ELSE PlanOrNone(parse_deep_research_response(planner.response[1]))

Section(title, focus) ==
    JObj([title |-> JStr(<<title>>), focus |-> JStr(<<focus>>)])

default_research_plan(topic) ==
    [primary_objective |-> JStr(<<"Compile a compendium covering", SP>> \o topic),
     audience |-> JStr(<<"Practitioners and researchers">>),
     key_sections |->
        JList(<<Section("Foundations", "Core concepts"),
                Section("Current Landscape", "Recent developments"),
                Section("Opportunities and Risks", "Emerging trends")>>),
     research_questions |->
        JList(<<JStr(<<"discoveries">>), JStr(<<"organizations">>),
                JStr(<<"controversies">>)>>),
     methodology_preferences |->
        JList(<<JStr(<<"primary sources">>), JStr(<<"cross-validate">>),
                JStr(<<"quantitative evidence">>)>>)]

\* plan.get(key, [])
GetOrEmptyList(plan, key) == IF Has(plan, key) THEN plan[key] ELSE JList(<<>>)

\* len(value or []): a number has no len().
LenOrEmpty(v) ==
    IF ~JTruthy(v) THEN [ok |-> TRUE, n |-> 0]
    ELSE IF IsList(v) THEN [ok |-> TRUE, n |-> Len(v.list)]
    ELSE IF IsStr(v) THEN [ok |-> TRUE, n |-> Len(v.str)]
    ELSE IF IsObj(v) THEN [ok |-> TRUE, n |-> Cardinality(DOMAIN v.obj)]
    ELSE [ok |-> FALSE, n |-> 0]

\* "for item in sections: item.get(...)": iterating a list gives its elements,
\* a string its characters and a mapping its keys; only a mapping has get().
ItemsHaveGet(v) ==
    IF IsList(v) THEN \A i \in DOMAIN v.list : IsObj(v.list[i])
    ELSE IF IsStr(v) THEN v.str = <<>>
    ELSE IF IsObj(v) THEN DOMAIN v.obj = {}
    ELSE TRUE

SectionLines(v) == IF IsList(v) THEN Len(v.list) ELSE 0

\* The prompt, reduced to the topic and the number of section lines, or the
\* AttributeError of a section that is not a mapping.
compose_deep_research_prompt(topic, plan) ==
    IF ItemsHaveGet(GetOrEmptyList(plan, "key_sections"))
    THEN Decoded([topic |-> topic,
                  section_lines |-> SectionLines(GetOrEmptyList(plan, "key_sections"))])
    ELSE Failed(Exception("AttributeError", "object has no attribute 'get'"))

\* ------------------------------------------------- compendium/compendium.py
\* enumerate(sections_payload) and section.get(...): the sections must be an
\* iterable of mappings.
SectionsError(v) ==
    IF IsNum(v) \/ v = JNull
    THEN <<Exception("TypeError", "object is not iterable")>>
    ELSE IF ~ItemsHaveGet(v)
    THEN <<Exception("AttributeError", "object has no attribute 'get'")>>
    ELSE <<>>

OverviewOf(payload) ==
    IF Has(payload, "topic_overview") /\ JTruthy(payload.topic_overview)
    THEN payload.topic_overview
    ELSE JStr(<<>>)

\* Compendium.from_payload, reduced to the topic, the overview and the number
\* of sections.
from_payload(topic, payload) ==
    IF SectionsError(GetOrEmptyList(payload, "sections")) # <<>>
    THEN Failed(SectionsError(GetOrEmptyList(payload, "sections"))[1])
    ELSE Decoded([topic |-> topic, overview |-> OverviewOf(payload),
                  sections |-> SectionLines(GetOrEmptyList(payload, "sections"))])

\* --------------------------------------------------------- orchestrator.py
\* The metadata of a planning or prompt_composition event.
Counts(sections, questions) == [sections |-> sections, questions |-> questions]
TopicMeta(topic) == [topic |-> topic]

\* The completion/error event of the handler: its message is str(exc).
ErrorEvent(exc) ==
    [k |-> "progress", phase |-> "completion", status |-> "error",
     note |-> "str(exc)", metadata |-> NoMeta, callback |-> "unset",
     message |-> StrOf(exc)]

\* A stage of build_compendium: the entries it logged, the value it produced
\* and the exception that ended it (absent: <<>>).
Stage(entries, value, exc) == [entries |-> entries, value |-> value, error |-> exc]

BlankTopic(topic) == Strip(topic) = <<>>

\* planning/starting and, with use_prompt_refinement, the call of the planner.
PlanningStarted(cfg, topic, planner) ==
    IF ~cfg.use_prompt_refinement
    THEN Stage(<<emit_progress("planning", "starting", "Normalizing topic",
                               TopicMeta(topic))>>, <<>>, <<>>)
    ELSE Stage(<<emit_progress("planning", "starting", "Normalizing topic",
                               TopicMeta(topic)),
                 emit_progress("planning", "in_progress", "Requesting blueprint",
                               NoMeta),
                 PlanCall(planner)>>,
               generate_research_plan(planner).plan,
               generate_research_plan(planner).error)

CompletedEvent(sections, questions) ==
    IF sections.ok /\ questions.ok
    THEN <<emit_progress("planning", "completed", "Received blueprint",
                         Counts(sections.n, questions.n))>>
    ELSE <<>>

PlanAnnouncedWith(stage, sections, questions) ==
    Stage(stage.entries \o CompletedEvent(sections, questions),
          stage.value,
          IF sections.ok /\ questions.ok THEN <<>>
          ELSE <<Exception("TypeError", "object has no len()")>>)

\* "if plan is None: ... else: ...": planning/update and the default plan, or
\* planning/completed with the sizes of the plan.
PlanAnnounced(topic, stage) ==
    IF stage.error # <<>> THEN stage
    ELSE IF stage.value = <<>>
    THEN Stage(stage.entries \o
                  <<emit_progress("planning", "update", "Falling back to default",
                                  NoMeta)>>,
               <<default_research_plan(topic)>>, <<>>)
    ELSE PlanAnnouncedWith(stage,
             LenOrEmpty(GetOrEmptyList(stage.value[1], "key_sections")),
             LenOrEmpty(GetOrEmptyList(stage.value[1], "research_questions")))

PromptComposedWith(stage, prompt, sections) ==
    IF ~prompt.ok THEN Stage(stage.entries, <<>>, prompt.error)
    ELSE IF ~sections.ok
    THEN Stage(stage.entries, <<>>, <<Exception("TypeError", "object has no len()")>>)
    ELSE Stage(stage.entries \o
                  <<emit_progress("prompt_composition", "completed",
                                  "assignment prepared", Counts(sections.n, 0))>>,
               <<prompt.value>>, <<>>)

\* compose_deep_research_prompt and prompt_composition/completed.
PromptComposed(topic, stage) ==
    IF stage.error # <<>> THEN stage
    ELSE PromptComposedWith(stage,
             compose_deep_research_prompt(topic, stage.value[1]),
             LenOrEmpty(GetOrEmptyList(stage.value[1], "key_sections")))

BeforeResearch(cfg, topic, planner) ==
    PromptComposed(topic, PlanAnnounced(topic, PlanningStarted(cfg, topic, planner)))

HandledSilently(stage) == stage.entries

\* "except Exception as exc: emit_progress(... str(exc)); raise"
Handled(stage) ==
    IF stage.error = <<>> THEN stage.entries
    ELSE stage.entries \o <<ErrorEvent(stage.error[1])>>

BuildState(topic, at, value, exc) ==
    [pc |-> at, topic |-> topic, result |-> value, error |-> exc]

\* "if not topic or not topic.strip(): raise ValueError(...)"
RejectTopic ==
    /\ build.pc = "start"
    /\ BlankTopic(build.topic)
    /\ build' = BuildState(build.topic, "raised", <<>>,
                           <<Exception("ValueError", "Topic must be non-empty")>>)
    /\ twin' = [twin EXCEPT !.build = build']
    /\ UNCHANGED <<config, pc, log, response, attempts, current, seen_tokens,
                   summarised, final_response, stream_state, result, error,
                   cancellation>>

BuildCommitted(delivered, built, engine) ==
    /\ log' = log \o delivered.entries
    /\ build' = IF delivered.escaped
                THEN BuildState(build.topic, "raised", <<>>, <<CallbackError>>)
                ELSE built
    /\ pc' = IF delivered.escaped THEN pc ELSE engine

\* A handler step of build_compendium: its effects, then its position and
\* outcome and the position of the engine.
BuildCommit(entries, built, engine) ==
    /\ BuildCommitted(Delivered(config.progress_callback, entries), built, engine)
    /\ twin' = [twin EXCEPT !.calls = @ \o SelectSeq(entries, IsAnyClientCall),
                            !.pc = engine, !.build = built]

BuildPlanEnds(stage) ==
    IF stage.error = <<>>
    THEN BuildCommit(Handled(stage), BuildState(build.topic, "engine", <<>>, <<>>),
                     "init")
    ELSE BuildCommit(Handled(stage),
                     BuildState(build.topic, "raised", <<>>, stage.error), pc)

\* build_compendium from the try to the call of execute_deep_research.
BuildPlan ==
    /\ build.pc = "start"
    /\ ~BlankTopic(build.topic)
    /\ \E planner \in PlannerOutcomes :
          BuildPlanEnds(BeforeResearch(config, Strip(build.topic), planner))
    /\ UNCHANGED <<config, response, attempts, current, seen_tokens, summarised,
                   final_response, stream_state, result, error, cancellation>>

\* payload.setdefault("trace", extract_trace_events(response))
WithTrace(payload, resp) ==
    IF Has(payload, "trace") THEN payload
    ELSE Put(payload, "trace", [events |-> extract_trace_events(resp)])

Constructed(stage, model) ==
    IF model.ok THEN Stage(stage.entries, <<model.value>>, <<>>)
    ELSE Stage(stage.entries, <<>>, model.error)

DecodingQuietly(topic, resp, stage, parsed) ==
    IF ~parsed.ok THEN Stage(stage.entries, <<>>, parsed.error)
    ELSE Constructed(stage, from_payload(topic, WithTrace(parsed.value, resp)))

\* parse_deep_research_response, completion/in_progress and from_payload.
Decoding(topic, resp, stage, parsed) ==
    IF ~parsed.ok THEN Stage(stage.entries, <<>>, parsed.error)
    ELSE Constructed(
             Stage(stage.entries \o
                      <<emit_progress("completion", "in_progress",
                                      "Constructing compendium model", NoMeta)>>,
                   <<>>, <<>>),
             from_payload(topic, WithTrace(parsed.value, resp)))

AfterResearch(topic, resp) ==
    Decoding(topic, resp,
             Stage(<<emit_progress("deep_research", "completed",
                                   "run finished; decoding payload", NoMeta)>>,
                   <<>>, <<>>),
             parse_deep_research_response(resp))

BuildEnds(stage) ==
    BuildCommit(Handled(stage),
                BuildState(build.topic,
                           IF stage.error = <<>> THEN "returned" ELSE "raised",
                           stage.value, stage.error),
                pc)

PayloadTextOk ==
    <<"{">> \o Key("topic_overview") \o Lit("Overview") \o <<",">>
    \o Key("sections") \o <<"[", "]", "}">>
PayloadTextTraced == <<"{">> \o Key("trace") \o <<"[", "]", "}">>
PayloadTextBadSections ==
    <<"{">> \o Key("sections") \o <<"[">> \o Lit("x") \o <<"]", "}">>
PayloadTextProse == <<"done", SP, "}">>

PayloadTexts ==
    {PayloadTextOk, PayloadTextTraced, PayloadTextBadSections, PayloadTextProse,
     NoneStr}

\* build_compendium from the return of execute_deep_research to its own end.
\* output_text is the text of the response the engine returned.
BuildFinish ==
    /\ build.pc = "engine"
    /\ pc \in {"returned", "raised"}
    /\ IF pc = "raised"
       THEN BuildEnds(Stage(<<>>, <<>>, error))
       ELSE \E output_text \in PayloadTexts :
               BuildEnds(AfterResearch(Strip(build.topic),
                                       Put(result[1], "output_text",
                                           TextField(output_text))))
    /\ UNCHANGED <<config, response, attempts, current, seen_tokens, summarised,
                   final_response, stream_state, result, error, cancellation>>

Topics == {<<"topic">>, <<SP, "topic", SP>>, <<SP>>, <<>>}

\* orchestrator.py calls the execute_deep_research of execution/core.py,
\* which has no streaming mode.
BuildConfigs ==
    {c \in [use_web_search : BOOLEAN, enable_code_interpreter : BOOLEAN,
            background : BOOLEAN, stream_progress : {FALSE},
            max_poll_attempts : {MaxPoll}, use_prompt_refinement : BOOLEAN,
            progress_callback : CallbackKinds] :
        c.use_web_search = c.enable_code_interpreter}

InitBuild ==
    /\ config \in BuildConfigs
    /\ pc = "build"
    /\ log = <<>>
    /\ response = <<>>
    /\ attempts = 0
    /\ current = <<>>
    /\ seen_tokens = {}
    /\ summarised = <<>>
    /\ final_response = <<>>
    /\ stream_state = InitStreamState
    /\ result = <<>>
    /\ error = <<>>
    /\ build \in {BuildState(topic, "start", <<>>, <<>>) : topic \in Topics}
    /\ cancellation = NoCancellation
    /\ twin = TwinOf(pc, build)

NextBuild ==
    \/ RejectTopic
    \/ BuildPlan
    \/ SubmitNoTools
    \/ SubmitSync
    \/ SubmitPoll
    \/ PollTick
    \/ BuildFinish

SpecBuild == InitBuild /\ [][NextBuild]_vars

\* ------------------------------------------------ the payload parser alone
\* decode_json_payload and collect_response_text applied to inputs drawn
\* from bounded sets.  response holds the input, pc the function under call
\* and log one entry per call.

\* json.dumps: members in the mapping's key order, ", " between items and
\* ": " after a key.
DumpKeyOrder == <<"a", "b", "key">>
KeysOf(m) == SelectSeq(DumpKeyOrder, LAMBDA k : k \in DOMAIN m)
Between(rest) == IF rest = <<>> THEN <<>> ELSE <<",", SP>>

RECURSIVE json_dumps(_), DumpMembers(_, _), DumpElements(_)
json_dumps(v) ==
    IF IsStr(v) THEN <<Quote>> \o v.str \o <<Quote>>
    ELSE IF IsNum(v) THEN <<v.num>>
    ELSE IF IsList(v) THEN <<"[">> \o DumpElements(v.list) \o <<"]">>
    ELSE IF IsObj(v) THEN <<"{">> \o DumpMembers(v.obj, KeysOf(v.obj)) \o <<"}">>
    ELSE <<"null">>

DumpMembers(m, keys) ==
    IF keys = <<>> THEN <<>>
    ELSE <<Quote, Head(keys), Quote, ":", SP>> \o json_dumps(m[Head(keys)])
         \o Between(Tail(keys)) \o DumpMembers(m, Tail(keys))

DumpElements(items) ==
    IF items = <<>> THEN <<>>
    ELSE json_dumps(Head(items)) \o Between(Tail(items)) \o DumpElements(Tail(items))

\* The dicts whose JSON is decoded.
PayloadDicts ==
    {EmptyDict,
     One("key", JStr(<<"value">>)),
     One("a", JNum("1")),
     Put(One("a", JList(<<JNum("1"), JStr(<<"x">>)>>)), "b", JNull),
     One("a", JObj(One("b", JStr(<<"x", SP, "y">>)))),
     One("a", JStr(<<"}">>)),
     One("a", JStr(<<"{">>))}

\* The ways the JSON of a dict is wrapped: bare, in a fence with or without
\* the json tag, and with prose before it, after it or on both sides; the
\* prose of "braces" mentions a set in braces.
Wrappers == {"plain", "fence", "fence_json", "prose_before", "prose_around",
             "prose_after", "prose_braces", "fence_then_prose"}

Wrapped(wrapper, text) ==
    IF wrapper = "fence" THEN <<Fence, SP>> \o text \o <<SP, Fence>>
    ELSE IF wrapper = "fence_json" THEN <<Fence, "json", SP>> \o text \o <<SP, Fence>>
    ELSE IF wrapper = "prose_before" THEN <<"noise", SP, "before", SP>> \o text
    ELSE IF wrapper = "prose_around"
    THEN <<"noise", SP, "before", SP>> \o text \o <<SP, "noise", SP, "after">>
    ELSE IF wrapper = "prose_after" THEN text \o <<SP, "noise", SP, "after">>
    ELSE IF wrapper = "prose_braces"
    THEN <<"the", SP, "set", SP, "{", "x", "}", SP, "as", SP, "JSON", SP>> \o text
    ELSE IF wrapper = "fence_then_prose"
    THEN <<Fence, "json", SP>> \o text \o <<SP, Fence, SP, "noise", SP, "after">>
    ELSE text

\* The output_text fields and output lists collect_response_text is given.
TextNode(text) == JObj(Put(One("type", JStr(<<"text">>)), "text", JStr(text)))
OutputTexts ==
    {JNull, JStr(EmptyStr), JStr(<<"t">>), JStr(<<SP, "t", SP>>), JStr(<<SP>>),
     JList(<<>>), JList(<<JStr(<<"a">>), TextNode(<<"b">>)>>),
     JObj(Put(One("type", JStr(<<"output_text">>)), "text",
              JList(<<TextNode(<<"{", Quote, "foo", Quote, ":", SP, "1", "}">>)>>))),
     JObj(One("type", JStr(<<"output_text">>))),
     JObj(EmptyDict), JNum("0"), JNum("3")}

TextItem(text) == [type |-> <<"output_text">>, text |-> JStr(text)]
OutputLists ==
    {<<>>, <<ItemSearch>>, <<MessageItem(<<"m">>)>>, <<TextItem(<<"o">>)>>,
     <<ItemSearch, MessageItem(<<"m", SP>>), TextItem(<<"o">>)>>}

InitParse ==
    /\ config \in {c \in Configs : c.max_poll_attempts = MaxPoll /\ c.background
                                     /\ c.use_web_search /\ c.enable_code_interpreter
                                     /\ ~c.stream_progress
                                     /\ c.progress_callback = "returns"}
    /\ \/ /\ pc = "decode_fn"
          /\ response \in {<<[dict |-> d, wrapper |-> w]>> :
                              d \in PayloadDicts, w \in Wrappers}
       \/ /\ pc = "collect_fn"
          /\ response \in {<<[output_text |-> t, output |-> o]>> :
                              t \in OutputTexts, o \in OutputLists}
    /\ log = <<>>
    /\ attempts = 0
    /\ current = <<>>
    /\ seen_tokens = {}
    /\ summarised = <<>>
    /\ final_response = <<>>
    /\ stream_state = InitStreamState
    /\ result = <<>>
    /\ error = <<>>
    /\ build = NoBuild
    /\ cancellation = NoCancellation
    /\ twin = TwinOf(pc, build)

CallDecode ==
    /\ pc = "decode_fn"
    /\ attempts = 0
    /\ Continue(<<[k |-> "decode", dict |-> response[1].dict,
                    wrapper |-> response[1].wrapper,
                    text |-> Wrapped(response[1].wrapper,
                                     json_dumps(JObj(response[1].dict))),
                    ret |-> decode_json_payload(
                                Wrapped(response[1].wrapper,
                                        json_dumps(JObj(response[1].dict))))]>>)
    /\ attempts' = 1
    /\ UNCHANGED <<build, cancellation, config, response, current, final_response,
                   stream_state, seen_tokens, summarised>>

CallCollect ==
    /\ pc = "collect_fn"
    /\ attempts = 0
    /\ Continue(<<[k |-> "collect", response |-> response[1],
                    ret |-> collect_response_text(response[1])]>>)
    /\ attempts' = 1
    /\ UNCHANGED <<build, cancellation, config, response, current, final_response,
                   stream_state, seen_tokens, summarised>>

NextParse == CallDecode \/ CallCollect

SpecParse == InitParse /\ [][NextParse]_vars

\* -------------------------------------------------------- cancellation.py
\* CancellationContext(client): is_cancel_requested is False and response_id
\* is None.  endpoint_fails tells whether client.responses.cancel raises.
MaxCancelOps == 4

NewContext(endpoint_fails) ==
    [pc |-> "live", endpoint_fails |-> endpoint_fails,
     is_cancel_requested |-> FALSE, response_id |-> NoneStr, ops |-> 0]

CancelCall(id, raised) == [k |-> "cancel", id |-> id, raised |-> raised]
IsCancelCall(e) == e.k = "cancel"
RegisterOp(id) == [k |-> "register_response", id |-> id]
RequestOp(raised) == [k |-> "request_cancel", raised |-> raised]
IsRequestOp(e) == e.k = "request_cancel"
IsRegisterOp(e) == e.k = "register_response"

\* register_response(response_id): the id is stored.
register_response(response_id) ==
    /\ cancellation.pc = "live"
    /\ cancellation.ops < MaxCancelOps
    /\ cancellation' = [cancellation EXCEPT !.response_id = response_id,
                                            !.ops = @ + 1]
    /\ log' = Append(log, RegisterOp(response_id))
    /\ UNCHANGED <<config, pc, response, attempts, current, seen_tokens, summarised,
                   final_response, stream_state, result, error, build, twin>>

AlreadyRequestedNever(ctx) == FALSE

\* The idempotent guard of request_cancel.
AlreadyRequested(ctx) == ctx.is_cancel_requested

EndpointErrorEscapes(ctx) == ctx.endpoint_fails

\* A failure of client.responses.cancel does not leave request_cancel.
EndpointErrorRaised(ctx) == FALSE

\* The call of the provider's cancel endpoint, when a response is registered.
CancelCalls(ctx) ==
    IF ctx.response_id = NoneStr THEN <<>>
    ELSE <<CancelCall(ctx.response_id, ctx.endpoint_fails)>>

\* request_cancel(): nothing when a cancel was already requested; else the
\* flag is set and the registered response is cancelled at the provider.
request_cancel ==
    /\ cancellation.pc = "live"
    /\ cancellation.ops < MaxCancelOps
    /\ cancellation' = [cancellation EXCEPT !.is_cancel_requested = TRUE,
                                            !.ops = @ + 1]
    /\ log' = IF AlreadyRequested(cancellation)
              THEN Append(log, RequestOp(FALSE))
              ELSE log \o CancelCalls(cancellation)
                       \o <<RequestOp(CancelCalls(cancellation) # <<>>
                                      /\ EndpointErrorRaised(cancellation))>>
    /\ UNCHANGED <<config, pc, response, attempts, current, seen_tokens, summarised,
                   final_response, stream_state, result, error, build, twin>>

ResponseIds == {<<"resp_123">>, <<"resp_abc">>}

InitCancel ==
    /\ config \in {c \in BuildConfigs :
                     /\ c.use_web_search /\ c.background /\ c.use_prompt_refinement
                     /\ c.progress_callback = "none"}
    /\ pc = "cancellation"
    /\ log = <<>>
    /\ response = <<>>
    /\ attempts = 0
    /\ current = <<>>
    /\ seen_tokens = {}
    /\ summarised = <<>>
    /\ final_response = <<>>
    /\ stream_state = InitStreamState
    /\ result = <<>>
    /\ error = <<>>
    /\ build = NoBuild
    /\ cancellation \in {NewContext(fails) : fails \in BOOLEAN}
    /\ twin = TwinOf(pc, build)

NextCancel ==
    \/ \E response_id \in ResponseIds : register_response(response_id)
    \/ request_cancel

SpecCancel == InitCancel /\ [][NextCancel]_vars

\* --------------------------------------------------------- observations
IsGet(e) == e.k = "get"
IsSleep(e) == e.k = "sleep"
IsCreate(e) == e.k = "create"
Retrievals == SelectSeq(log, IsGet)
ProgressEvents == SelectSeq(log, IsProgress)
Final == pc \in {"returned", "raised"}
PollingPath == response # <<>> /\ FinalStatus(response[1]) \in StillRunning
StreamingPath == pc # "init" /\ HasTools(config) /\ config.stream_progress
Err == error[1]

RunningStatus(st) ==
    coerce_optional_string(st) \notin {<<"completed">>, <<"failed">>, <<"error">>}

\* ------------------------------------------------------------------ C1
\* C1 (as stated): whenever execute_deep_research has returned, the returned
\* response's status is completed.
C1_ReturnedStatusCompleted ==
    pc = "returned" =>
        /\ result # <<>>
        /\ coerce_optional_string(result[1].status) = <<"completed">>

\* The response whose status decided the end of the run.
LastResponse ==
    IF StreamingPath THEN final_response
    ELSE IF PollingPath THEN current
    ELSE response

\* C1 (amended): whenever execute_deep_research has returned, the response it
\* returned has status completed (surrounding whitespace ignored) or carries
\* no status at all, which the engine reads as completed; after polling the
\* status is completed; a run whose last response has any other status has
\* raised and returned nothing.
C1_ReturnedCompletedOrMissing ==
    /\ (pc = "returned") <=> (result # <<>>)
    /\ pc = "returned" =>
        /\ error = <<>>
        /\ result = LastResponse
        /\ coerce_optional_string(result[1].status) \in {<<"completed">>, NoneStr}
        /\ PollingPath => coerce_optional_string(result[1].status) = <<"completed">>
    /\ (Final /\ LastResponse # <<>>
          /\ coerce_optional_string(LastResponse[1].status)
                \notin {<<"completed">>, NoneStr})
        => (pc = "raised" /\ error # <<>>)

C1_Witness ==
    /\ pc = "returned"
    /\ StreamingPath
    /\ result[1].status = NoneStr

\* ------------------------------------------------------------------ C2
\* C2: with use_web_search and enable_code_interpreter both false the run
\* raises DeepResearchError and no client method has been called (nothing at
\* all has been emitted), whatever background and stream_progress are.
C2_NoToolsRaisesBeforeClient ==
    (~config.use_web_search /\ ~config.enable_code_interpreter /\ pc # "init"
        /\ pc # "trace_fn")
    => /\ pc = "raised"
       /\ Err.kind = "DeepResearchError"
       /\ Err.msg = "requires web search or code interpreter"
       /\ result = <<>>
       /\ \A i \in DOMAIN log : ~IsClientCall(log[i])

C2_Witness ==
    /\ pc = "raised"
    /\ ~config.use_web_search /\ ~config.enable_code_interpreter
    /\ config.stream_progress /\ config.background
    /\ log = <<>>

\* ------------------------------------------------------------------ C3
\* C3: a retrieval that returned status failed or error is the last effect of
\* the run (no sleep, retrieval or progress event follows it) and the run has
\* raised DeepResearchError with that status in its message.
C3_FailedSnapshotEndsRun ==
    \A i \in DOMAIN log :
        (IsGet(log[i]) /\ coerce_optional_string(log[i].ret.status)
                              \in {<<"failed">>, <<"error">>})
        => /\ i = Len(log)
           /\ pc = "raised"
           /\ Err.kind = "DeepResearchError"
           /\ Err.msg = "run failed with status"
           /\ Err.detail = coerce_optional_string(log[i].ret.status)
           /\ result = <<>>

C3_Witness ==
    /\ pc = "raised"
    /\ Len(Retrievals) = 2
    /\ log[Len(log)].k = "get"
    /\ log[Len(log)].ret.status = <<"error", SP>>
    /\ Err.detail = <<"error">>

\* ------------------------------------------------------------------ C4
\* C4 (as stated): a retrieval that returned status cancelled ends the run at
\* once with a cancellation-specific error, of a kind other than
\* DeepResearchError, whose research_id is the id of the response.
C4_CancelledRaisesCancellationError ==
    \A i \in DOMAIN log :
        (IsGet(log[i]) /\ coerce_optional_string(log[i].ret.status) = <<"cancelled">>)
        => /\ i = Len(log)
           /\ pc = "raised"
           /\ Err.kind = "ResearchCancelledError"
           /\ Err.research_id = response[1].id

\* ------------------------------------------------------------------ C5
BudgetExhausted ==
    /\ PollingPath
    /\ pc # "polling"
    /\ attempts = config.max_poll_attempts
    /\ Len(Retrievals) = attempts
    /\ \A i \in DOMAIN Retrievals : RunningStatus(Retrievals[i].ret.status)
    /\ \A i \in DOMAIN Retrievals :
          EmitTracePolling(summaries_from_trace_events(
              iter_trace_progress_events(Retrievals[i].ret), {}).summaries).raised = FALSE

\* C5 (as stated): when the polling budget is exhausted with every retrieved
\* snapshot still running, the run has raised a timeout error of a kind other
\* than DeepResearchError whose research_id is the id of the submitted
\* response, and has returned nothing.
C5_TimeoutErrorCarriesId ==
    BudgetExhausted
    => /\ pc = "raised"
       /\ result = <<>>
       /\ Err.kind = "ResearchTimeoutError"
       /\ Err.research_id = response[1].id

\* ------------------------------------------------------------------ C6
IsDeepResearch(e, status) ==
    IsProgress(e) /\ e.phase = "deep_research" /\ e.status = status

\* C6: when the k-th retrieval of a run is the first to return status
\* completed, the run has returned exactly that snapshot after exactly k
\* retrievals, each addressed to the id of the submitted response, and the log
\* holds a deep_research/in_progress event before a deep_research/completed
\* event.
C6_PollsUntilCompleted ==
    \A k \in DOMAIN Retrievals :
        coerce_optional_string(Retrievals[k].ret.status) = <<"completed">>
        => /\ FinalStatus(response[1]) \in StillRunning
           /\ pc = "returned"
           /\ result = <<Retrievals[k].ret>>
           /\ Len(Retrievals) = k
           /\ \A j \in 1..k : Retrievals[j].id = response[1].id
           /\ \E a, b \in DOMAIN log :
                /\ a < b
                /\ IsDeepResearch(log[a], "in_progress")
                /\ IsDeepResearch(log[b], "completed")

C6_Witness ==
    /\ pc = "returned"
    /\ Len(Retrievals) = 2
    /\ response[1].status = <<"queued">>
    /\ Retrievals[1].ret.id # response[1].id
    /\ Retrievals[2].ret.status = <<SP, "completed">>

\* ------------------------------------------------------------------ C7
\* C7: within one run no dedupe token is accounted for by a summary twice:
\* the tokens of the events summarised so far are pairwise distinct and all
\* of them are in the seen set, so an event whose token is in the seen set is
\* never summarised again.
C7_TokenSummarisedOnce ==
    /\ \A i, j \in DOMAIN summarised : i # j => summarised[i] # summarised[j]
    /\ \A i \in DOMAIN summarised : summarised[i] \in seen_tokens

C7_Witness ==
    /\ PollingPath
    /\ Len(Retrievals) = 2
    /\ Retrievals[1].ret.output = <<ItemSearch, ItemOpenPage>>
    /\ Retrievals[2].ret.output = <<ItemSearch>>
    /\ Len(summarised) = 2

\* ------------------------------------------------------------------ C8
\* C8: a second call of summaries_from_trace_events with the same batch and
\* the same persistent seen_tokens set returns no summary and leaves
\* seen_tokens as the first call left it.
C8_ResubmissionYieldsNothing ==
    pc = "trace_fn" =>
        \A i \in DOMAIN log :
            i >= 2 => /\ log[i].ret = <<>>
                      /\ log[i].seen_after = log[i].seen_before
                      /\ log[i].seen_before = log[i - 1].seen_after

C8_Witness ==
    /\ pc = "trace_fn"
    /\ Len(log) = 2
    /\ Len(log[1].ret) = 2
    /\ log[2].ret = <<>>
    /\ log[1].seen_before # {}

\* ------------------------------------------------------------------ C9
IsFailureEvent(e) ==
    IsEvent(e) /\ Lower(coerce_optional_string(GetStr(e.ev, "type"))) \in FailureEventTypes

\* The message a failure event carries: error.message, or the top-level
\* message of an event without an error field.
EventErrorMessage(ev) ==
    IF Has(ev, "error") THEN coerce_optional_string(GetStr(ev.error, "message"))
    ELSE coerce_optional_string(GetStr(ev, "message"))

\* C9: a response.failed, response.error or error event is the last effect of
\* a streaming run: the run has raised DeepResearchError whose message holds
\* the event's error message, no later event was consumed and nothing was
\* returned, also when a response.completed event came before it.
C9_StreamFailureRaisesAtOnce ==
    \A i \in DOMAIN log :
        IsFailureEvent(log[i])
        => /\ i = Len(log)
           /\ pc = "raised"
           /\ result = <<>>
           /\ Err.kind = "DeepResearchError"
           /\ Err.msg = "stream reported an error"
           /\ Truthy(EventErrorMessage(log[i].ev))
                => Err.detail = EventErrorMessage(log[i].ev)

C9_Witness ==
    /\ pc = "raised"
    /\ final_response # <<>>
    /\ IsFailureEvent(log[Len(log)])
    /\ Err.detail = <<"rate limited">>

\* ----------------------------------------------------------------- C10
IsStreamEnd(e) == e.k = "stream_end"
IsFallbackCall(e) == e.k = "get_final_response"
IsCompletedEvent(e) ==
    IsEvent(e) /\ Lower(coerce_optional_string(GetStr(e.ev, "type"))) = <<"response.completed">>
Exhausted == \E i \in DOMAIN log : IsStreamEnd(log[i])
CompletedSeen == \E i \in DOMAIN log : IsCompletedEvent(log[i])
CandidateSeen == \E i \in DOMAIN log : IsCompletedEvent(log[i]) /\ Has(log[i].ev, "response")
FallbackCalls == SelectSeq(log, IsFallbackCall)
StreamEnds == SelectSeq(log, IsStreamEnd)

\* C10 (as stated): a stream exhausted without any response.completed event is
\* not reported as success; get_final_response is called only when no
\* response.completed event was seen; when it is absent or yields nothing the
\* run raises DeepResearchError.
C10_NoCompletedEventNeverSuccess ==
    /\ (Exhausted /\ ~CompletedSeen) => pc # "returned"
    /\ FallbackCalls # <<>> => ~CompletedSeen
    /\ (Exhausted /\ ~CompletedSeen
          /\ (FallbackCalls = <<>> \/ FallbackCalls[1].ret = <<>>))
        => (pc = "raised" /\ Err.kind = "DeepResearchError")

\* C10 (amended): a stream exhausted without a response.completed event that
\* carries a response is reported as success only when get_final_response
\* yields a response whose status is completed or missing, and that response
\* is what the run returns; get_final_response is called exactly when the
\* stream has the method and no such event supplied a response (so also after
\* a response.completed event without a response), at most once; when it is
\* absent or yields nothing the run raises DeepResearchError.
C10_FallbackOnlyWithoutCandidate ==
    /\ FallbackCalls # <<>> =>
          (Exhausted /\ ~CandidateSeen /\ Len(FallbackCalls) = 1
             /\ StreamEnds[1].has_get_final_response)
    /\ (Exhausted /\ ~CandidateSeen /\ StreamEnds[1].has_get_final_response)
          => FallbackCalls # <<>>
    /\ (Exhausted /\ ~CandidateSeen /\ pc = "returned")
          => /\ FallbackCalls # <<>>
             /\ result = FallbackCalls[1].ret
             /\ coerce_optional_string(result[1].status) \in {<<"completed">>, NoneStr}
    /\ (Exhausted /\ ~CandidateSeen
          /\ (FallbackCalls = <<>> \/ FallbackCalls[1].ret = <<>>))
        => /\ pc = "raised"
           /\ result = <<>>
           /\ Err.kind = "DeepResearchError"
           /\ Err.msg = "stream completed without a final response"

C10_Witness ==
    /\ pc = "returned"
    /\ CompletedSeen
    /\ ~CandidateSeen
    /\ FallbackCalls # <<>>
    /\ Consumed >= 2

\* ----------------------------------------------------------------- C11
IsCandidateEvent(e) == IsCompletedEvent(e) /\ Has(e.ev, "response")
LastCandidateIndex ==
    CHOOSE i \in DOMAIN log :
        /\ IsCandidateEvent(log[i])
        /\ \A j \in DOMAIN log : IsCandidateEvent(log[j]) => j <= i
EventType(e) == Lower(coerce_optional_string(GetStr(e.ev, "type")))
FirstStatusEventAfterCandidate(i) ==
    /\ IsEvent(log[i])
    /\ EventType(log[i]) \in StatusEventTypes
    /\ \A j \in 1..(i - 1) : IsEvent(log[j]) => EventType(log[j]) # EventType(log[i])
    /\ \E j \in 1..(i - 1) : IsCandidateEvent(log[j])

\* C11: a streaming run that returns after a response.completed event with an
\* embedded response returns that response (of the last such event) without
\* consulting get_final_response; the run returns only after the stream is
\* exhausted, every consumed event lies before that point, and an event that
\* follows response.completed is still processed (a first status event after
\* it emits its progress event).
C11_CompletedResponseReturnedAfterDrain ==
    /\ (pc = "returned" /\ StreamingPath /\ CandidateSeen)
        => /\ result = <<log[LastCandidateIndex].ev.response>>
           /\ FallbackCalls = <<>>
    /\ (pc = "returned" /\ StreamingPath)
        => /\ Len(StreamEnds) = 1
           /\ \A i, j \in DOMAIN log :
                (IsEvent(log[i]) /\ IsStreamEnd(log[j])) => i < j
    /\ (Final /\ Exhausted /\ CandidateSeen
          /\ FinalStatus(log[LastCandidateIndex].ev.response) # <<"completed">>)
        => pc = "raised"
    /\ \A i \in DOMAIN log :
        FirstStatusEventAfterCandidate(i)
        => /\ i < Len(log)
           /\ IsProgress(log[i + 1])
           /\ log[i + 1].metadata.status = coerce_optional_string(log[i].ev.type)

C11_Witness ==
    /\ pc = "returned"
    /\ CandidateSeen
    /\ \E i \in DOMAIN log : FirstStatusEventAfterCandidate(i)
    /\ \E i \in DOMAIN log :
         /\ i > LastCandidateIndex
         /\ IsEvent(log[i])
         /\ log[i].ev.type = <<"response.output_item.added">>
         /\ summarised # <<>>
    /\ result = <<FinalOk>>

\* ----------------------------------------------------------------- C12
Creates == SelectSeq(log, IsCreate)
IsOverrideNote(e) ==
    IsProgress(e) /\ e.phase = "deep_research" /\ e.status = "update"
        /\ e.note = "disabling background mode"
OverrideNotes == SelectSeq(log, IsOverrideNote)

Foreground ==
    /\ pc \notin {"init", "trace_fn"}
    /\ HasTools(config)
    /\ ~config.background
    /\ ~config.stream_progress
SubmittedStatus == coerce_optional_string(response[1].status)

\* C13 (as stated): with background false and streaming off the submitted
\* response is terminal: no retrieval is made, the run has ended, it returned
\* that response when its status is completed and raised DeepResearchError
\* carrying the status for any other status.
C13_ForegroundResponseIsTerminal ==
    Foreground
    => /\ Retrievals = <<>>
       /\ Final
       /\ SubmittedStatus = <<"completed">> => (pc = "returned" /\ result = response)
       /\ SubmittedStatus # <<"completed">>
            => /\ pc = "raised"
               /\ Err.kind = "DeepResearchError"
               /\ Err.detail = SubmittedStatus

\* C13 (amended): with background false and streaming off exactly one request
\* is submitted, with background = false.  When the submitted response's
\* status is neither in_progress nor queued no retrieval is made: the run
\* returns that response when the status is completed or missing, and raises
\* DeepResearchError carrying the status otherwise.  When the status is
\* in_progress or queued the run polls as in background mode: it does not end
\* before a retrieval unless the poll budget is zero.
C13_ForegroundTerminalUnlessRunning ==
    Foreground
    => /\ Len(Creates) = 1
       /\ Creates[1].background = FALSE
       /\ Creates[1].stream = FALSE
       /\ SubmittedStatus \notin {<<"in_progress">>, <<"queued">>}
            => /\ Retrievals = <<>>
               /\ Final
               /\ SubmittedStatus \in {<<"completed">>, NoneStr}
                    => (pc = "returned" /\ result = response)
               /\ SubmittedStatus \notin {<<"completed">>, NoneStr}
                    => /\ pc = "raised"
                       /\ result = <<>>
                       /\ Err.kind = "DeepResearchError"
                       /\ Err.msg = "did not complete successfully"
                       /\ Err.detail = SubmittedStatus
       /\ SubmittedStatus \in {<<"in_progress">>, <<"queued">>}
            => /\ pc = "polling" => Len(Retrievals) < config.max_poll_attempts
               /\ Final => (Retrievals # <<>> \/ config.max_poll_attempts = 0)
               /\ pc = "returned" => result = <<Retrievals[Len(Retrievals)].ret>>

C13_Witness ==
    /\ Foreground
    /\ pc = "raised"
    /\ SubmittedStatus = <<"requires_action">>
    /\ Err.detail = <<"requires_action">>
    /\ Retrievals = <<>>

\* ----------------------------------------------------------------- C14
\* The fragment a consumed event handed to the accumulator (<<>>: none).
FragmentOf(e) == TraceFragment(e.ev, EventType(e))
IsFragmentFor(e, id) ==
    /\ IsEvent(e)
    /\ FragmentOf(e) # <<>>
    /\ FragmentId(FragmentOf(e)[1]) = id
\* The query delta a fragment carries: at its top level, in its action or in
\* its arguments (<<>>: none).
QueryDelta(fragment) ==
    IF Has(fragment, "query_delta") THEN <<fragment.query_delta>>
    ELSE IF Has(fragment, "action") /\ Has(fragment.action, "query_delta")
    THEN <<fragment.action.query_delta>>
    ELSE IF Has(fragment, "arguments") /\ Has(fragment.arguments, "dict")
            /\ Has(fragment.arguments.dict, "query_delta")
    THEN <<fragment.arguments.dict.query_delta>>
    ELSE <<>>
RECURSIVE ConcatDeltas(_, _)
ConcatDeltas(entries, id) ==
    IF entries = <<>> THEN <<>>
    ELSE (IF IsFragmentFor(Head(entries), id)
          THEN QueryDelta(FragmentOf(Head(entries))[1])[1] ELSE <<>>)
         \o ConcatDeltas(Tail(entries), id)
OnlyDeltasFor(id) ==
    /\ \E i \in DOMAIN log : IsFragmentFor(log[i], id)
    /\ \A i \in DOMAIN log :
         IsFragmentFor(log[i], id) => QueryDelta(FragmentOf(log[i])[1]) # <<>>
    /\ pc \in {"streaming", "returned"}

\* C14 (as stated): after the accumulator was fed only delta fragments
\* d1..dn for the tool-call id x (as {"id":"x","query_delta":"a"} then
\* {"id":"x","query_delta":"b"}), the snapshot stored for x has the action
\* query d1 d2 ... dn.
C14_DeltaFragmentsConcatenate ==
    OnlyDeltasFor(<<"x">>)
    => /\ <<"x">> \in DOMAIN stream_state.tool_events
       /\ Has(stream_state.tool_events[<<"x">>], "action")
       /\ GetStr(stream_state.tool_events[<<"x">>].action, "query")
            = ConcatDeltas(log, <<"x">>)

\* ----------------------------------------------------------------- C15
ActionKeysOf(snapshot) ==
    IF Has(snapshot, "action") /\ IsMapping(snapshot.action)
    THEN DOMAIN snapshot.action ELSE {}

\* C15 (as stated): every step keeps, for every tool-call id, every top-level
\* field and every action key of the stored snapshot.
C15_NoFieldOrActionKeyLost ==
    [][\A id \in DOMAIN stream_state.tool_events :
          /\ id \in DOMAIN stream_state'.tool_events
          /\ DOMAIN stream_state.tool_events[id]
                \subseteq DOMAIN stream_state'.tool_events[id]
          /\ ActionKeysOf(stream_state.tool_events[id])
                \subseteq ActionKeysOf(stream_state'.tool_events[id])]_vars

\* C15 (amended): every step keeps, for every tool-call id, every top-level
\* field of the stored snapshot, and every action key of it as long as the
\* stored action stays a mapping; a fragment whose action is not a mapping
\* overwrites the stored action as a whole.
C15_FieldsKeptActionKeysWhileMapping ==
    [][\A id \in DOMAIN stream_state.tool_events :
          /\ id \in DOMAIN stream_state'.tool_events
          /\ DOMAIN stream_state.tool_events[id]
                \subseteq DOMAIN stream_state'.tool_events[id]
          /\ IsMapping(GetDict(stream_state'.tool_events[id], "action"))
                => ActionKeysOf(stream_state.tool_events[id])
                      \subseteq ActionKeysOf(stream_state'.tool_events[id])]_vars

C15_Witness ==
    /\ pc = "streaming"
    /\ <<"x">> \in DOMAIN stream_state.tool_events
    /\ DOMAIN stream_state.tool_events[<<"x">>]
          = {"id", "type", "status", "action", "result"}
    /\ stream_state.tool_events[<<"x">>].action.query = <<"a", "b">>
    /\ IsFragmentFor(log[Len(log)], <<"x">>)
    /\ Has(FragmentOf(log[Len(log)])[1], "result")

\* ------------------------------------------------ build_compendium runs
IsCompletionError(e) == IsProgress(e) /\ e.phase = "completion" /\ e.status = "error"
ErrorEvents == SelectSeq(log, IsCompletionError)
BuildRaisedInTry == build.pc = "raised" /\ ~BlankTopic(build.topic)
BuildReturned == build.pc = "returned"
PlanCalls == SelectSeq(log, IsPlanCall)

\* ------------------------------------------------------------------ C16
\* C16: when a stage of build_compendium after the topic validation raises,
\* exactly one completion/error event has been emitted, it carries str() of
\* the exception, it is the last progress event (and the last effect) of the
\* run, and the exception the caller receives is the one the stage raised: the
\* engine's exception when execute_deep_research raised, the client's when the
\* planner call raised.  A run that has not raised has emitted no such event.
C16_StageFailureReportedOnceAndReraised ==
    /\ BuildRaisedInTry =>
          /\ Len(ErrorEvents) = 1
          /\ ProgressEvents[Len(ProgressEvents)] = ErrorEvents[1]
          /\ log[Len(log)] = ErrorEvents[1]
          /\ ErrorEvents[1].message = StrOf(build.error[1])
          /\ build.result = <<>>
          /\ pc = "raised" => build.error = error
          /\ (PlanCalls # <<>> /\ PlanCalls[1].ret.raises) =>
                build.error[1].kind = "APIError"
    /\ build.pc \in {"start", "engine", "returned"} => ErrorEvents = <<>>

\* An engine failure after a retrieval has been reported and re-raised.
C16_Witness ==
    /\ BuildRaisedInTry
    /\ pc = "raised"
    /\ Retrievals # <<>>
    /\ Err.kind = "DeepResearchError"
    /\ build.error = error

\* ------------------------------------------------------------------ C17
IsPhase(e, phase, status) == IsProgress(e) /\ e.phase = phase /\ e.status = status
InPhase(e, phase) == IsProgress(e) /\ e.phase = phase
PromptComposedAt ==
    CHOOSE i \in DOMAIN ProgressEvents :
        InPhase(ProgressEvents[i], "prompt_composition")

\* C17: when build_compendium has returned, its progress events start with
\* planning/starting; exactly one prompt_composition event exists, it is
\* prompt_composition/completed, every planning event comes before it and
\* every deep_research event after it; the last event is the only
\* completion event, completion/in_progress, and a deep_research/completed
\* event comes before it; so the phases include planning and deep_research
\* and some event has status completed.
C17_SuccessfulRunEventOrder ==
    BuildReturned =>
        /\ ProgressEvents # <<>>
        /\ IsPhase(ProgressEvents[1], "planning", "starting")
        /\ Cardinality({i \in DOMAIN ProgressEvents :
                           InPhase(ProgressEvents[i], "prompt_composition")}) = 1
        /\ ProgressEvents[PromptComposedAt].status = "completed"
        /\ \A i \in DOMAIN ProgressEvents :
              /\ InPhase(ProgressEvents[i], "planning") => i < PromptComposedAt
              /\ InPhase(ProgressEvents[i], "deep_research") => i > PromptComposedAt
              /\ InPhase(ProgressEvents[i], "completion") => i = Len(ProgressEvents)
        /\ IsPhase(ProgressEvents[Len(ProgressEvents)], "completion", "in_progress")
        /\ \E i \in 1..(Len(ProgressEvents) - 1) :
              IsPhase(ProgressEvents[i], "deep_research", "completed")
        /\ build.result # <<>>

\* A run with a refined plan whose engine polled and reported a trace summary
\* has returned.
C17_Witness ==
    /\ BuildReturned
    /\ Retrievals # <<>>
    /\ \E i \in DOMAIN ProgressEvents : InPhase(ProgressEvents[i], "trace")
    /\ \E i \in DOMAIN ProgressEvents :
          IsPhase(ProgressEvents[i], "planning", "completed")

\* ------------------------------------------------------------------ C18
PlannerText(call) == parse_deep_research_response(call.ret.response[1])
PlannerFailedToDecode ==
    /\ PlanCalls # <<>>
    /\ ~PlanCalls[1].ret.raises
    /\ ~PlannerText(PlanCalls[1]).ok
PlanCallAt == CHOOSE i \in DOMAIN log : IsPlanCall(log[i])

\* C18: when the planner's response has no text, or a text that
\* decode_json_payload rejects, the planner call is followed by planning/update
\* and by prompt_composition/completed for the three sections of the default
\* plan, no planning/completed event exists, execute_deep_research is entered,
\* and the run can only have raised in or after the engine.  The planner is
\* called at most once, and never when use_prompt_refinement is false; then
\* too the run goes on with planning/update.
C18_PlanningIsBestEffort ==
    /\ Len(PlanCalls) <= 1
    /\ ~config.use_prompt_refinement => PlanCalls = <<>>
    /\ PlannerFailedToDecode =>
          /\ IsPhase(log[PlanCallAt + 1], "planning", "update")
          /\ IsPhase(log[PlanCallAt + 2], "prompt_composition", "completed")
          /\ log[PlanCallAt + 2].metadata.sections = 3
          /\ \A i \in DOMAIN log : ~IsPhase(log[i], "planning", "completed")
          /\ pc # "build"
          /\ build.pc = "raised" => pc \in {"returned", "raised"}
    /\ (~config.use_prompt_refinement /\ build.pc \notin {"start", "off"}
           /\ ~BlankTopic(build.topic)) =>
          /\ IsPhase(log[2], "planning", "update")
          /\ pc # "build"

\* A run whose planner answered in prose has gone on to return a compendium.
C18_Witness ==
    /\ PlannerFailedToDecode
    /\ PlanCalls[1].ret.response[1].output_text = JStr(PlanTextProse)
    /\ BuildReturned
    /\ \E i \in DOMAIN log : IsCreate(log[i])

\* ------------------------------------------------------------------ C19
ClientCalls == SelectSeq(log, IsAnyClientCall)
Swallowed(e) == IsProgress(e) /\ e.callback = "swallowed"

\* C19: a run whose callback raises on every invocation (or is None) is, at
\* every step, where the same run under a callback that never raises is: the
\* same client calls in the same order, the same position and the same
\* returned value or raised error, for execute_deep_research and for
\* build_compendium; every invocation of a raising callback was swallowed and
\* no run ends with the callback's exception.
C19_CallbackCannotAlterRun ==
    /\ ClientCalls = twin.calls
    /\ pc = twin.pc
    /\ result = twin.result
    /\ error = twin.error
    /\ build = twin.build
    /\ \A i \in DOMAIN log :
          IsProgress(log[i]) =>
              log[i].callback = CASE config.progress_callback = "raises" -> "swallowed"
                                  [] config.progress_callback = "none" -> "not_called"
                                  [] OTHER -> "returned"
    /\ error # <<>> => error[1].kind # "CallbackError"
    /\ build.error # <<>> => build.error[1].kind # "CallbackError"

\* A build whose callback raised on each of its events has polled and
\* returned a compendium.
C19_Witness ==
    /\ config.progress_callback = "raises"
    /\ BuildReturned
    /\ Retrievals # <<>>
    /\ Len(SelectSeq(log, Swallowed)) >= 6
    /\ Len(ClientCalls) >= 3

\* ------------------------------------------------------------------ C20
CancelCallsMade == SelectSeq(log, IsCancelCall)
RequestsMade == SelectSeq(log, IsRequestOp)
RegisteredBefore(i) ==
    LET last == CHOOSE j \in 1..(i - 1) :
                    /\ IsRegisterOp(log[j])
                    /\ \A m \in (j + 1)..(i - 1) : ~IsRegisterOp(log[m])
    IN log[last].id

\* C20: over any sequence of register_response and request_cancel calls on
\* one CancellationContext, the cancel endpoint has been called at most once,
\* with the response id registered at that moment and within the first
\* request_cancel; is_cancel_requested is true exactly when request_cancel
\* has been called, so it never reverts; and no request_cancel raised,
\* whether or not the endpoint failed.
C20_CancelOnceNeverRevertsNeverRaises ==
    cancellation.pc = "live" =>
        /\ Len(CancelCallsMade) <= 1
        /\ \A i \in DOMAIN log :
              IsCancelCall(log[i]) =>
                  /\ \E j \in 1..(i - 1) : IsRegisterOp(log[j])
                  /\ log[i].id = RegisteredBefore(i)
                  /\ \A j \in 1..(i - 1) : ~IsRequestOp(log[j])
                  /\ log[i].raised = cancellation.endpoint_fails
        /\ cancellation.is_cancel_requested = (RequestsMade # <<>>)
        /\ \A i \in DOMAIN RequestsMade : ~RequestsMade[i].raised

\* request_cancel was called twice on a context with a registered response
\* whose cancel endpoint failed.
C20_Witness ==
    /\ cancellation.pc = "live"
    /\ cancellation.endpoint_fails
    /\ Len(RequestsMade) = 2
    /\ Len(CancelCallsMade) = 1
    /\ CancelCallsMade[1].raised
    /\ cancellation.is_cancel_requested

\* ----------------------------------------------------------------- C21
DecodeCalls == SelectSeq(log, LAMBDA e : e.k = "decode")

RoundTrips(call) == call.ret.ok /\ call.ret.value = call.dict

\* C21: decode_json_payload round-trips: whatever the dict and however its
\* JSON is wrapped (bare, fenced with or without the json tag, or with prose
\* around it), decoding the text gives the dict back.
C21_DecodeRoundTrips ==
    \A i \in DOMAIN DecodeCalls : RoundTrips(DecodeCalls[i])

\* ----------------------------------------------------------------- C22
CollectCalls == SelectSeq(log, LAMBDA e : e.k = "collect")

\* output_text is present and non-empty and holds at least one fragment
YieldsText(output_text) ==
    JTruthy(output_text) /\ iter_text_fragments(output_text) # <<>>

TextOf(output_text) == Strip(Concat(iter_text_fragments(output_text)))

CollectedAsClaimed(call) ==
    /\ YieldsText(call.response.output_text)
       => call.ret = Decoded(TextOf(call.response.output_text))
    /\ IsStr(call.response.output_text) /\ call.response.output_text.str # <<>>
       => call.ret = Decoded(Strip(call.response.output_text.str))
    /\ ~YieldsText(call.response.output_text)
       /\ TextParts(call.response.output) # <<>>
       => call.ret = Decoded(Strip(Concat(TextParts(call.response.output))))
    /\ ~YieldsText(call.response.output_text)
       /\ TextParts(call.response.output) = <<>>
       => ~call.ret.ok /\ call.ret.error[1].kind = "DeepResearchError"

\* C22: collect_response_text returns the text of output_text whenever
\* output_text is present and non-empty, whatever the output list holds; the
\* text of the output list is returned only when output_text yields no
\* text, and DeepResearchError is raised when neither yields text.
C22_OutputTextPreferred ==
    \A i \in DOMAIN CollectCalls : CollectedAsClaimed(CollectCalls[i])

\* output_text is a nested object and the output list holds other text: the
\* text of output_text is returned.
C22_Witness ==
    \E i \in DOMAIN CollectCalls :
        /\ IsObj(CollectCalls[i].response.output_text)
        /\ YieldsText(CollectCalls[i].response.output_text)
        /\ TextParts(CollectCalls[i].response.output) = <<<<"m">>>>
        /\ CollectCalls[i].ret.value
           = <<"{", Quote, "foo", Quote, ":", SP, "1", "}">>

\* ----------------------------------------------------------------- C23
TokenCalls == SelectSeq(log, LAMBDA e : e.k = "token")

SameTypeAndAction(a, b) == a.type = b.type /\ a.action = b.action

\* C23: two events without an id that agree on type and action receive the
\* same token from trace_event_token, whatever their status and response,
\* the order of the calls and the seen_tokens set at the time of the call.
C23_TokenOfTypeAndAction ==
    \A i, j \in DOMAIN TokenCalls :
        /\ ~Truthy(TokenCalls[i].event.id)
        /\ ~Truthy(TokenCalls[j].event.id)
        /\ SameTypeAndAction(TokenCalls[i].event, TokenCalls[j].event)
        => TokenCalls[i].ret = TokenCalls[j].ret

\* The token of a code-interpreter event is taken before and after the
\* batch was summarised, the second time with another status and a response.
C23_Witness ==
    /\ Len(log) = 3
    /\ Len(TokenCalls) = 2
    /\ log[2].k = "summaries"
    /\ TokenCalls[1].event.status # TokenCalls[2].event.status
    /\ TokenCalls[1].seen # TokenCalls[2].seen
    /\ SameTypeAndAction(TokenCalls[1].event, TokenCalls[2].event)
    /\ TokenCalls[1].ret = <<"code_interpreter", "_call", ":">>
                            \o JsonDumpsAction(TokenCalls[1].event.action)

\* ----------------------------------------------------------------- C24
Sleeps == SelectSeq(log, IsSleep)

\* every retrieval comes right after a sleep of poll_interval_seconds, and
\* no sleep is made without its retrieval
SleepBeforeEachRetrieval ==
    /\ \A i \in DOMAIN log :
          IsGet(log[i]) => i > 1 /\ log[i - 1] = SleepCall
    /\ Len(Sleeps) = Len(Retrievals)

RetrievalsWithinBudget == Len(Retrievals) <= config.max_poll_attempts

\* C24: await_completion terminates whatever statuses the retrievals
\* return: it makes at most max_poll_attempts retrievals (none when the
\* budget is 0), sleeps exactly once before each of them, and then the run
\* has returned or raised.
C24_AwaitCompletionTerminates ==
    /\ [](RetrievalsWithinBudget /\ SleepBeforeEachRetrieval)
    /\ <>Final

\* The whole budget is spent on retrievals that are still running, and the
\* run has raised.
C24_Witness ==
    /\ pc = "raised"
    /\ config.max_poll_attempts = MaxPoll
    /\ Len(Retrievals) = MaxPoll
    /\ \A i \in DOMAIN Retrievals : FinalStatus(Retrievals[i].ret) \in StillRunning
    /\ Err.msg = "polling limit"

\* ----------------------------------------------------------------- C25
\* a retrieved status that is none of queued, in_progress and completed
EndsPolling(st) ==
    coerce_optional_string(st) \notin StillRunning \cup {<<"completed">>}

\* C25: a retrieval whose status is none of queued, in_progress and
\* completed (failed, error, an unexpected value or no status) is the last
\* retrieval of the run, and the run has raised DeepResearchError carrying
\* that status.
C25_OnlyRunningStatusPollsAgain ==
    \A k \in DOMAIN Retrievals :
        EndsPolling(Retrievals[k].ret.status)
        => /\ k = Len(Retrievals)
           /\ pc = "raised"
           /\ Err.kind = "DeepResearchError"
           /\ Err.detail = coerce_optional_string(Retrievals[k].ret.status)

\* ----------------------------------------------------------------- C26
\* The last entry of the tick whose retrieval is log[i]: the entry before the
\* next sleep, or the end of the log.
TickEnd(i) ==
    IF \E j \in (i + 1)..Len(log) : IsSleep(log[j])
    THEN (CHOOSE j \in (i + 1)..Len(log) :
             IsSleep(log[j]) /\ \A m \in (i + 1)..(j - 1) : ~IsSleep(log[m])) - 1
    ELSE Len(log)

RetrievalsUpTo(i) == Cardinality({j \in 1..i : IsGet(log[j])})

IsTraceEvent(e) == IsProgress(e) /\ e.phase = "trace"

\* after the retrieval log[i]: trace events only, then one heartbeat that
\* ends the tick and carries the number of retrievals made
TraceThenOneHeartbeat(i) ==
    /\ TickEnd(i) > i
    /\ IsDeepResearch(log[TickEnd(i)], "update")
    /\ log[TickEnd(i)].metadata.poll_attempt = RetrievalsUpTo(i)
    /\ \A m \in (i + 1)..(TickEnd(i) - 1) : IsTraceEvent(log[m])

NoHeartbeat(i) ==
    \A m \in (i + 1)..TickEnd(i) : ~IsDeepResearch(log[m], "update")

\* C26: a tick whose retrieval returned in_progress or queued emits its
\* trace events and then exactly one deep_research/update heartbeat whose
\* poll_attempt is the number of retrievals made so far; a tick whose
\* retrieval returned completed, failed or error emits no heartbeat.
C26_TraceThenHeartbeatPerRunningTick ==
    \A i \in DOMAIN log :
        IsGet(log[i])
        => /\ FinalStatus(log[i].ret) \in StillRunning /\ Truthy(log[i].ret.status)
              => TraceThenOneHeartbeat(i)
           /\ coerce_optional_string(log[i].ret.status)
                 \in FailedStatuses \cup {<<"completed">>}
              => NoHeartbeat(i)

\* ----------------------------------------------------------------- C27
CompletedEmitted == \E i \in DOMAIN log : IsDeepResearch(log[i], "completed")

RaisedForStatus ==
    /\ pc = "raised"
    /\ Err.kind = "DeepResearchError"
    /\ Err.msg \in {"did not complete successfully", "run failed with status"}

\* C27: a deep_research/completed event is emitted only by a run whose
\* final status is completed: the run that emitted one has returned a
\* completed response, and a run that raised DeepResearchError for a status
\* other than completed has emitted none.
C27_CompletedEventOnlyForCompletedRun ==
    /\ CompletedEmitted
       => pc = "returned" /\ FinalStatus(result[1]) = <<"completed">>
    /\ RaisedForStatus => ~CompletedEmitted

\* ----------------------------------------------------------------- C28
SummaryCalls == SelectSeq(log, LAMBDA e : e.k = "summaries")

IsSummaryRecord(summary) == {"status", "message", "metadata"} \subseteq DOMAIN summary

\* C28: every element summaries_from_trace_events returns is a summary with
\* a message, a status and a metadata entry, also the one for a web-search
\* event without a query, so that the emitters can read these keys.
C28_EverySummaryHasMessageStatusMetadata ==
    \A i \in DOMAIN SummaryCalls :
        \A m \in DOMAIN SummaryCalls[i].ret : IsSummaryRecord(SummaryCalls[i].ret[m])

\* ------------------------------------------ batches of trace events
\* The batch a call of summaries_from_trace_events is given, the events of
\* the batch that are new to a seen set (the first event of each token not
\* in the set) and the category the specification files an event under.
Batch == iter_trace_progress_events(response[1])

NewEvents(seen) ==
    {j \in DOMAIN Batch :
        /\ trace_event_token(Batch[j]) \notin seen
        /\ \A m \in 1..(j - 1) :
              trace_event_token(Batch[m]) # trace_event_token(Batch[j])}

ActionTypeOf(event) ==
    IF event.action.type = NoneStr THEN <<>> ELSE Lower(event.action.type)

CategoryOf(event) ==
    IF EndsWith(Lower(event.type), <<"web_search", "_call">>)
       \/ ActionTypeOf(event) = <<"search">>
    THEN (IF Truthy(coerce_optional_string(event.action.query))
          THEN "web_search" ELSE "fallback")
    ELSE IF Contains(Lower(event.type), "open_page") THEN "open_page"
    ELSE IF Contains(Lower(event.type), "find_in_page")
            \/ ActionTypeOf(event) = <<"find">>
    THEN "find_in_page"
    ELSE IF EndsWith(Lower(event.type), <<"code_interpreter", "_call">>)
            \/ ActionTypeOf(event) \in {<<"code">>, <<"python">>}
    THEN "code_interpreter"
    ELSE "fallback"

NewIn(seen, category) == {j \in NewEvents(seen) : CategoryOf(Batch[j]) = category}

Categories == {"web_search", "open_page", "find_in_page", "code_interpreter"}

\* the elements of a result that are the summary of a category
OfKind(ret, kind) ==
    {m \in DOMAIN ret :
        /\ Has(ret[m], "metadata")
        /\ Has(ret[m].metadata, "kind")
        /\ ret[m].metadata.kind = kind}

\* the elements of a result that stand for one fallback event each
FallbackElements(ret) == DOMAIN ret \ UNION {OfKind(ret, kind) : kind \in Categories}

\* ----------------------------------------------------------------- C29
SummariesCounted(call) ==
    /\ \A kind \in Categories :
          Cardinality(OfKind(call.ret, kind))
          = IF NewIn(call.seen_before, kind) # {} THEN 1 ELSE 0
    /\ Cardinality(FallbackElements(call.ret))
       = Cardinality(NewIn(call.seen_before, "fallback"))
    /\ Len(call.ret)
       = Cardinality({kind \in Categories : NewIn(call.seen_before, kind) # {}})
         + Cardinality(NewIn(call.seen_before, "fallback"))

\* C29: a call of summaries_from_trace_events returns one summary for each
\* of the categories web search, open page, find in page and code
\* interpreter that a new event of the batch falls under (one web-search
\* summary also for several distinct queries) and one element for each
\* fallback event, and nothing else.
C29_OneSummaryPerCategoryPlusFallbacks ==
    \A i \in DOMAIN SummaryCalls : SummariesCounted(SummaryCalls[i])

\* Two searches with distinct queries are summarised in one element.
C29_Witness ==
    /\ pc = "trace_fn"
    /\ Len(SummaryCalls) >= 1
    /\ Cardinality(NewIn(SummaryCalls[1].seen_before, "web_search")) = 2
    /\ Len(SummaryCalls[1].ret) = 1
    /\ SummaryCalls[1].ret[1].metadata.queries = <<<<"Q1">>, <<"q1">>>>

\* ----------------------------------------------------------------- C30
\* what the category's summary accounts for: the queries it lists, or its
\* count; nothing when the result has no summary of the category
Accounted(ret, kind) ==
    IF OfKind(ret, kind) = {} THEN 0
    ELSE IF kind = "web_search"
    THEN Len(ret[CHOOSE m \in OfKind(ret, kind) : TRUE].metadata.queries)
    ELSE ret[CHOOSE m \in OfKind(ret, kind) : TRUE].metadata.count

EventsAccounted(call) ==
    /\ \A kind \in Categories :
          Accounted(call.ret, kind) = Cardinality(NewIn(call.seen_before, kind))
    /\ Cardinality(FallbackElements(call.ret))
       = Cardinality(NewIn(call.seen_before, "fallback"))
    /\ call.seen_after
       = call.seen_before \cup {trace_event_token(Batch[j]) : j \in DOMAIN Batch}

\* C30: every event of the batch whose token is new is accounted for once,
\* in the query list of the web-search summary, in the count of the summary
\* of its category or as a fallback element, an event whose token was seen
\* is accounted for nowhere, and after the call seen_tokens is its prior
\* value together with the tokens of the batch.
C30_NewEventsAccountedOnce ==
    \A i \in DOMAIN SummaryCalls : EventsAccounted(SummaryCalls[i])

\* The search of the batch was seen before and is accounted for nowhere; the
\* code run is new and is counted.
C30_Witness ==
    /\ pc = "trace_fn"
    /\ Len(SummaryCalls) >= 1
    /\ response[1].output = <<ItemSearch, ItemPython>>
    /\ trace_event_token(Batch[1]) \in SummaryCalls[1].seen_before
    /\ Len(SummaryCalls[1].ret) = 1
    /\ Accounted(SummaryCalls[1].ret, "web_search") = 0
    /\ Accounted(SummaryCalls[1].ret, "code_interpreter") = 1

\* ----------------------------------------------------------------- C31
SameIdStatusQuery(a, b) ==
    /\ a.id = b.id
    /\ a.status = b.status
    /\ a.action.query = b.action.query

\* id, status and query as the token reads them: blanks around the status
\* and the query do not count, and a blank one is a missing one
SameIdStrippedStatusQuery(a, b) ==
    /\ a.id = b.id
    /\ coerce_optional_string(a.status) = coerce_optional_string(b.status)
    /\ coerce_optional_string(a.action.query) = coerce_optional_string(b.action.query)

\* neither the id nor the status holds the separator of the token
SeparatorFree(event) == ~Contains(event.id, ":") /\ ~Contains(event.status, ":")

\* C31 (amended): two events that carry an id, and whose id and status do
\* not hold the separator ":", receive the same token exactly when their
\* id, their stripped status and their stripped action query are equal.
C31_TokenOfIdStrippedStatusQuery ==
    \A i, j \in DOMAIN TokenCalls :
        /\ Truthy(TokenCalls[i].event.id) /\ Truthy(TokenCalls[j].event.id)
        /\ SeparatorFree(TokenCalls[i].event) /\ SeparatorFree(TokenCalls[j].event)
        => (TokenCalls[i].ret = TokenCalls[j].ret
            <=> SameIdStrippedStatusQuery(TokenCalls[i].event, TokenCalls[j].event))

\* The token of one call is taken as reported, with blanks added and with
\* another status: the first two tokens are equal and the third differs.
C31_Witness ==
    /\ Len(TokenCalls) = 3
    /\ TokenCalls[1].event.id = <<"ws_1">>
    /\ TokenCalls[1].event.status = <<"completed">>
    /\ TokenCalls[2].event = Padded(TokenCalls[1].event)
    /\ TokenCalls[3].event = Restated(TokenCalls[1].event)
    /\ TokenCalls[1].ret = TokenCalls[2].ret
    /\ TokenCalls[1].ret # TokenCalls[3].ret

\* C31 as stated: two events that carry an id receive the same token exactly
\* when their id, status and action query are all equal.
C31_TokenDistinguishesIdStatusQuery ==
    \A i, j \in DOMAIN TokenCalls :
        Truthy(TokenCalls[i].event.id) /\ Truthy(TokenCalls[j].event.id)
        => (TokenCalls[i].ret = TokenCalls[j].ret
            <=> SameIdStatusQuery(TokenCalls[i].event, TokenCalls[j].event))

\* ----------------------------------------------------------------- C32
MergeActionCalls == SelectSeq(log, LAMBDA e : e.k = "merge_action")

\* "the existing string at k (empty if absent)"
ExistingString(existing, key) ==
    IF IsMapping(existing) /\ Has(existing, key) THEN existing[key] ELSE EmptyStr

ExistingNested(existing, key) ==
    IF IsMapping(existing) /\ Has(existing, key) THEN existing[key] ELSE EmptyDict

RECURSIVE MergedExactly(_, _, _)
MergedExactly(existing, incoming, ret) ==
    \A key \in DOMAIN incoming :
        IF key \in DeltaKeys
        THEN /\ Has(ret, BaseKey(key))
             /\ ret[BaseKey(key)] =
                    ExistingString(existing, BaseKey(key)) \o incoming[key]
        ELSE IF key \in NestedKeys
        THEN /\ Has(ret, key)
             /\ MergedExactly(ExistingNested(existing, key), incoming[key], ret[key])
        ELSE Has(ret, key) /\ ret[key] = incoming[key]

IsQueryDelta(call) == DOMAIN call.incoming = {"query_delta"}

RECURSIVE Deltas(_)
Deltas(calls) ==
    IF calls = <<>> THEN EmptyStr
    ELSE Head(calls).incoming.query_delta \o Deltas(Tail(calls))

\* C32 (as stated): merge_action_payload appends deltas exactly.  For every
\* call with a mapping incoming, the value returned at k for a key k_delta
\* is the existing string at k (empty if absent) followed by the delta with
\* no character dropped, nested mappings are merged by the same rule and every
\* other key holds the incoming value; and when the calls so far were
\* the deltas d1..dn of the query, the query returned last is d1 d2 .. dn.
C32_DeltasAppendedExactly ==
    /\ \A i \in DOMAIN MergeActionCalls :
          IsMapping(MergeActionCalls[i].incoming)
          => MergedExactly(MergeActionCalls[i].existing,
                           MergeActionCalls[i].incoming,
                           MergeActionCalls[i].ret)
    /\ (/\ MergeActionCalls # <<>>
        /\ \A i \in DOMAIN MergeActionCalls : IsQueryDelta(MergeActionCalls[i]))
       => MergeActionCalls[Len(MergeActionCalls)].ret.query = Deltas(MergeActionCalls)

\* ----------------------------------------------------------------- C33
MergeResponseCalls == SelectSeq(log, LAMBDA e : e.k = "merge_response")
TraceUpdatesCalls == SelectSeq(log, LAMBDA e : e.k = "trace_updates")

BothMappings(a, b) == IsMapping(a) /\ IsMapping(b)

\* ret is incoming merged deeply into existing: the keys of both, a key of
\* existing alone as it was, a key of incoming holding a mapping where
\* existing holds one merged by the same rule, any other key of incoming as
\* it came.
RECURSIVE DeepMerged(_, _, _)
DeepMerged(existing, incoming, ret) ==
    /\ IsMapping(ret)
    /\ DOMAIN ret = (DOMAIN existing) \cup (DOMAIN incoming)
    /\ \A key \in (DOMAIN existing) \ (DOMAIN incoming) : ret[key] = existing[key]
    /\ \A key \in DOMAIN incoming :
          IF key \in ResponseNestedKeys /\ Has(existing, key)
             /\ BothMappings(existing[key], incoming[key])
          THEN DeepMerged(existing[key], incoming[key], ret[key])
          ELSE ret[key] = incoming[key]

\* The merge rule of the response and result payloads.
PayloadMerged(existing, incoming, ret) ==
    IF incoming = NoPayload THEN ret = existing
    ELSE IF BothMappings(existing, incoming) THEN DeepMerged(existing, incoming, ret)
    ELSE ret = incoming

MergeResponseAsClaimed ==
    \A i \in DOMAIN MergeResponseCalls :
        PayloadMerged(MergeResponseCalls[i].existing, MergeResponseCalls[i].incoming,
                      MergeResponseCalls[i].ret)

\* A call of the accumulator for an id whose fragment carries a payload under
\* key: the call returned and left under the id's key the stored payload
\* merged with the fragment's.
StoredPayload(tool_events, id, key) ==
    IF id \in DOMAIN tool_events THEN GetPayload(tool_events[id], key) ELSE NoPayload

PayloadStoredAsClaimed(call, key) ==
    (Truthy(call.event_id) /\ GetPayload(call.item, key) # NoPayload)
    => /\ ~call.accumulator_raised
       /\ PayloadMerged(StoredPayload(call.before, call.event_id, key),
                        call.item[key],
                        StoredPayload(call.after, call.event_id, key))

IsTyped(item) == normalize_tool_fragment(item) # <<>>

TypedFragmentsAsClaimed ==
    \A i \in DOMAIN TraceUpdatesCalls :
        IsTyped(TraceUpdatesCalls[i].item)
        => \A key \in {"response", "result"} :
              PayloadStoredAsClaimed(TraceUpdatesCalls[i], key)

\* C33 (as stated): merging a response or result payload deep-merges a
\* mapping into a mapping (the keys of the existing one that the incoming one
\* lacks are kept, recursively), lets an incoming value that is neither a
\* mapping nor null replace the existing one, and leaves the existing one
\* when the incoming one is null; this holds for merge_response_payload, for
\* the payload of a typed fragment and for the payload of a type-less
\* fragment, whose merged payload is what the accumulator stores for the id.
C33_PayloadsDeepMerged ==
    /\ MergeResponseAsClaimed
    /\ \A i \in DOMAIN TraceUpdatesCalls :
          \A key \in {"response", "result"} :
              PayloadStoredAsClaimed(TraceUpdatesCalls[i], key)

\* ----------------------------------------------------------------- C34
PayloadKeys == {"response", "result"}

CarriesPayload(item) == \E key \in PayloadKeys : GetPayload(item, key) # NoPayload

\* The call returned no snapshot, emitted nothing and changed neither the
\* stored snapshots nor the seen tokens.
Skipped(call) ==
    /\ ~call.raised
    /\ call.snapshot = <<>>
    /\ call.emitted = 0
    /\ call.after = call.before
    /\ call.seen_after = call.seen_before

\* stored holds the payload: each of its keys when it is a mapping, the
\* payload itself otherwise.
HoldsPayload(stored, payload) ==
    IF IsMapping(payload)
    THEN /\ IsMapping(stored)
         /\ \A k \in DOMAIN payload : Has(stored, k) /\ stored[k] = payload[k]
    ELSE stored = payload

\* The call updated the snapshot stored for the id with the payloads of the
\* fragment and left its other fields as they were.
AppliedAsUpdate(call) ==
    LET old == call.before[call.event_id]
        stored == call.after[call.event_id]
    IN /\ ~call.accumulator_raised
       /\ call.event_id \in DOMAIN call.after
       /\ \A key \in (DOMAIN old) \ PayloadKeys : Has(stored, key) /\ stored[key] = old[key]
       /\ \A key \in PayloadKeys :
             GetPayload(call.item, key) # NoPayload
             => Has(stored, key) /\ HoldsPayload(stored[key], call.item[key])

TypelessSkipped ==
    \A i \in DOMAIN TraceUpdatesCalls :
        (~IsTyped(TraceUpdatesCalls[i].item) /\ ~CarriesPayload(TraceUpdatesCalls[i].item))
        => Skipped(TraceUpdatesCalls[i])

TypelessApplied(payloads) ==
    \A i \in DOMAIN TraceUpdatesCalls :
        (/\ ~IsTyped(TraceUpdatesCalls[i].item)
         /\ CarriesPayload(TraceUpdatesCalls[i].item)
         /\ \A key \in PayloadKeys : GetPayload(TraceUpdatesCalls[i].item, key) \in payloads
         /\ TraceUpdatesCalls[i].event_id \in DOMAIN TraceUpdatesCalls[i].before)
        => AppliedAsUpdate(TraceUpdatesCalls[i])

FragmentPayloads ==
    {GetPayload(item, key) : item \in MergeItems, key \in PayloadKeys}

MappingPayloadsApplied ==
    TypelessApplied({payload \in FragmentPayloads : IsMapping(payload)} \cup {NoPayload})

\* C34 (as stated): a fragment with no derivable type and no response or
\* result payload is skipped (no snapshot returned, nothing emitted, stored
\* snapshots and seen tokens unchanged), and a type-less fragment that
\* carries a response or result is applied as an update to the snapshot
\* already stored for its id.
C34_TypelessSkippedOrApplied ==
    /\ TypelessSkipped
    /\ TypelessApplied(FragmentPayloads)

\* ----------------------------------------------------------------- C35
\* The call left the stored snapshot of every id other than its own as it was
\* and stored nothing under another id.
OtherIdsUnchanged(call) ==
    /\ \A id \in (DOMAIN call.before) \ {call.event_id} :
          id \in DOMAIN call.after /\ call.after[id] = call.before[id]
    /\ DOMAIN call.after \subseteq (DOMAIN call.before) \cup {call.event_id}

\* C35: the accumulator is keyed by tool-call id.  Every call of it leaves
\* the stored snapshot of every id other than the fragment's unchanged, and a
\* call for a fragment from which no id can be derived leaves all the stored
\* snapshots unchanged.
C35_AccumulatorKeyedById ==
    \A i \in DOMAIN TraceUpdatesCalls :
        /\ OtherIdsUnchanged(TraceUpdatesCalls[i])
        /\ ~Truthy(TraceUpdatesCalls[i].event_id)
           => TraceUpdatesCalls[i].after = TraceUpdatesCalls[i].before

\* Witness: with a snapshot stored for x, a fragment for y was merged and
\* stored, and a typed fragment without an id was processed and returned a
\* snapshot.
C35_Witness ==
    \E i, j \in DOMAIN TraceUpdatesCalls :
        /\ TraceUpdatesCalls[i].event_id = <<"y">>
        /\ <<"x">> \in DOMAIN TraceUpdatesCalls[i].before
        /\ TraceUpdatesCalls[i].after # TraceUpdatesCalls[i].before
        /\ ~Truthy(TraceUpdatesCalls[j].event_id)
        /\ TraceUpdatesCalls[j].snapshot # <<>>
        /\ TraceUpdatesCalls[j].before # <<>>

\* ----------------------------------------------------------------- C36
\* Where the current call of execute_deep_research starts in log and in
\* summarised.
RECURSIVE LastInvoke(_)
LastInvoke(n) ==
    IF n = 0 THEN 0
    ELSE IF log[n].k = "invoke" THEN n
    ELSE LastInvoke(n - 1)

CallStart == LastInvoke(Len(log))
CurrentCall == SubSeq(log, CallStart + 1, Len(log))
SummarisedBefore == IF CallStart = 0 THEN 0 ELSE log[CallStart].summarised
SummarisedNow == SubSeq(summarised, SummarisedBefore + 1, Len(summarised))
Elements(seq) == {seq[i] : i \in DOMAIN seq}

StatusEventsOf(entries) ==
    {Lower(coerce_optional_string(GetStr(entries[i].ev, "type"))) :
        i \in {j \in DOMAIN entries : IsEvent(entries[j])}}
    \cap StatusEventTypes

FragmentIdsOf(entries) ==
    {FirstFragmentId(collect_stream_fragments(
         TraceFragment(entries[i].ev,
                       Lower(coerce_optional_string(GetStr(entries[i].ev, "type"))))[1])) :
        i \in {j \in DOMAIN entries :
                 /\ IsEvent(entries[j])
                 /\ Truthy(coerce_optional_string(GetStr(entries[j].ev, "type")))
                 /\ TraceFragment(entries[j].ev,
                        Lower(coerce_optional_string(GetStr(entries[j].ev, "type"))))
                    # <<>>}}

\* C36: the seen tokens and the stream state live for one call of
\* execute_deep_research.  While a call polls or streams, its seen tokens are
\* exactly the tokens of the events this call summarised, the status events
\* it noted are exactly those of this call's stream and it stores snapshots
\* only for ids of this call's fragments: both start empty and nothing of an
\* earlier call is in them.
C36_StatePerCall ==
    pc \in {"polling", "streaming"}
    => /\ seen_tokens = Elements(SummarisedNow)
       /\ pc = "streaming"
          => /\ stream_state.status_events = StatusEventsOf(CurrentCall)
             /\ DOMAIN stream_state.tool_events \subseteq FragmentIdsOf(CurrentCall)

\* Witness: in the second call of a client, a token that the first call had
\* summarised has been summarised again.
C36_Witness ==
    /\ CallStart > 0
    /\ pc \in {"polling", "streaming", "raised"}
    /\ \E t \in Elements(SummarisedNow) :
          t \in Elements(SubSeq(summarised, 1, SummarisedBefore))

\* ----------------------------------------------------------------- C37
\* The notes the current call emitted for status events, and the type of a
\* consumed event.
IsStatusNote(e, status) == IsDeepResearch(e, status) /\ e.note = "status event"
StatusNotes(status) == SelectSeq(CurrentCall, LAMBDA e : IsStatusNote(e, status))
EventTypeOf(e) == Lower(coerce_optional_string(GetStr(e.ev, "type")))

CreatedEvents ==
    SelectSeq(CurrentCall,
              LAMBDA e : IsEvent(e) /\ EventTypeOf(e) = <<"response.created">>)

\* A step that consumes a created or in_progress event of a type the stream
\* of the current call has delivered before, in whatever letter case.
DuplicateStatusEvent ==
    /\ pc = "streaming"
    /\ Len(log') > Len(log)
    /\ IsEvent(log'[Len(log) + 1])
    /\ EventTypeOf(log'[Len(log) + 1]) \in StatusEventsOf(CurrentCall)

\* C37: across a stream at most one status note is emitted for
\* response.created and at most one for response.in_progress, however many
\* such events arrive and in whatever letter case; a duplicate adds nothing
\* but its own consumption to the log and leaves the stream state, the seen
\* tokens and the position of the run unchanged.
C37_StatusNotesOnce ==
    /\ [](Len(StatusNotes("starting")) <= 1 /\ Len(StatusNotes("in_progress")) <= 1)
    /\ [][DuplicateStatusEvent
            => /\ Len(log') = Len(log) + 1
               /\ stream_state' = stream_state
               /\ seen_tokens' = seen_tokens
               /\ pc' = pc]_vars

\* Witness: a stream delivered three created events in both letter cases
\* and one note was emitted.
C37_Witness ==
    /\ Len(CreatedEvents) = 3
    /\ \E i, j \in DOMAIN CreatedEvents :
          /\ CreatedEvents[i].ev.type = <<"response.created">>
          /\ CreatedEvents[j].ev.type = <<"RESPONSE.CREATED">>
    /\ Len(StatusNotes("starting")) = 1

\* ----------------------------------------------------------------- C38
ExtractCalls == SelectSeq(log, LAMBDA e : e.k = "extract_error")

\* A field read as the function reads it: stripped, blank counting as
\* missing.
FieldOf(m, key) == coerce_optional_string(GetStr(m, key))

\* The text holds the key and its value, side by side.
Mentions(text, key, value) ==
    \E i \in DOMAIN text :
        /\ text[i] = key
        /\ i + 1 + Len(value) <= Len(text)
        /\ SubSeq(text, i + 2, i + 1 + Len(value)) = value

PreferredMessage(event, ret) ==
    IF Has(event, "error")
    THEN IsMapping(event.error)
         => IF Truthy(FieldOf(event.error, "message"))
            THEN ret = FieldOf(event.error, "message")
            ELSE IF Truthy(FieldOf(event.error, "code"))
            THEN ret = FieldOf(event.error, "code")
            ELSE /\ Head(ret) = "{" /\ ret[Len(ret)] = "}"
                 /\ \A key \in DOMAIN event.error :
                       Mentions(ret, key, event.error[key])
    ELSE Truthy(FieldOf(event, "message")) => ret = FieldOf(event, "message")

\* C38: the message extracted from a stream failure event is the message of
\* its error mapping when that is not blank, else the code of the error
\* mapping when that is not blank, else a JSON dump of the error mapping that
\* holds each of its keys with its value; for an event without an error field
\* it is the top-level message.
C38_ErrorMessagePreference ==
    \A i \in DOMAIN ExtractCalls :
        PreferredMessage(ExtractCalls[i].event, ExtractCalls[i].ret)

\* Witness: the function was applied to an error holding a message and a
\* code, to an error holding a blank message and a code, to an error holding
\* neither, and to an event without an error field.
C38_Witness ==
    /\ \E i \in DOMAIN ExtractCalls :
          /\ ExtractCalls[i].event = One("error", One("type", <<"server_error">>))
          /\ Len(ExtractCalls[i].ret) > 2
    /\ \E i \in DOMAIN ExtractCalls :
          /\ ExtractCalls[i].event =
                One("error", Put(One("message", <<"rate limited">>), "code", <<"429">>))
          /\ ExtractCalls[i].ret = <<"rate limited">>
    /\ \E i \in DOMAIN ExtractCalls :
          \/ /\ ExtractCalls[i].event = One("message", <<"boom">>)
             /\ ExtractCalls[i].ret = <<"boom">>
          \/ /\ ExtractCalls[i].event =
                   One("error", Put(One("message", <<SP>>), "code", <<"E42">>))
             /\ ExtractCalls[i].ret = <<"E42">>

\* ------------------------------------------------ the submission alone
\* execute_deep_research up to the return of client.responses.create, with a
\* create call that returns, raises or never returns.  A TypeError of the
\* streaming create is re-raised as RuntimeError; any other exception leaves
\* execute_deep_research as it is.  pc is "creating" while create blocks.
CreateOutcomes == {"raises", "raises_type_error", "blocks"}

CreateError(outcome, stream) ==
    IF outcome = "raises" THEN Exception("APIError", "create failed")
    ELSE IF stream THEN Exception("RuntimeError", "streaming not supported")
    ELSE Exception("TypeError", "create failed")

SubmitFails ==
    /\ pc = "init"
    /\ HasTools(config)
    /\ \E outcome \in CreateOutcomes :
          LET entries ==
                IF config.stream_progress
                THEN Submission(BackgroundOverride(config.background),
                                CreateCall(FALSE, TRUE))
                ELSE Submission(<<>>, CreateCall(config.background, FALSE))
          IN IF outcome = "blocks"
             THEN Commit(entries, "creating", result, error)
             ELSE Raise(CreateError(outcome, config.stream_progress), entries)
    /\ UNCHANGED <<build, cancellation, config, response, attempts, current,
                   seen_tokens, summarised, final_response, stream_state>>

NextSubmit ==
    \/ SubmitNoTools
    \/ SubmitSync
    \/ SubmitPoll
    \/ SubmitStream
    \/ SubmitFails

SpecSubmit == Init /\ [][NextSubmit]_vars

\* ----------------------------------------------------------------- C39
CreateFailed ==
    \/ pc = "creating"
    \/ pc = "raised" /\ Err.kind \in {"APIError", "RuntimeError", "TypeError"}

StartingBefore(i) == \E j \in 1..(i - 1) : IsDeepResearch(log[j], "starting")

\* C39: the deep_research/starting event is emitted before the client's
\* create call in every mode: every create call in the log comes after a
\* starting event, and a run whose create call blocks or raises has made the
\* call and so has emitted the event.
C39_StartingBeforeCreate ==
    /\ \A i \in DOMAIN log : IsCreate(log[i]) => StartingBefore(i)
    /\ CreateFailed => \E i \in DOMAIN log : IsCreate(log[i]) /\ StartingBefore(i)

\* Witness: a streaming run whose create call never returned, after the
\* starting event.
C39_Witness ==
    /\ pc = "creating"
    /\ config.stream_progress
    /\ IsCreate(log[Len(log)])
    /\ IsDeepResearch(log[1], "starting")
====
